---- MODULE Spec2Model ----
(***************************************************************************)
(* Invoice store (useInvoiceStore) of the InvoiceAnalisis frontend.        *)
(*                                                                         *)
(* The store is a single-threaded, event-driven object: every async        *)
(* action runs synchronously up to its gateway call (the await), and its   *)
(* continuation runs to completion when the gateway response arrives.      *)
(* Each of these two halves is one action of the model.  Gateway calls     *)
(* that were issued and not yet answered are kept in the bag `pending`;    *)
(* the gateway answers them in any order.  `ev` records the last step.     *)
(* `calls` counts the store actions started so far; the store has no such  *)
(* counter, it only bounds the behaviours that are explored.               *)
(* `admin` is the admin store (useAdminStore): its lists, its snapshot and *)
(* its own loading and error flags.  `auth` is the auth store              *)
(* (useAuthStore): the user profile, the session flag and its own loading  *)
(* and error flags.                                                        *)
(***************************************************************************)
EXTENDS Bags, FiniteSets, Integers, Sequences, TLC

VARIABLES invoices, currentInvoice, loading, error, total, pending, calls, ev,
          admin, auth

vars == <<invoices, currentInvoice, loading, error, total, pending, calls, ev,
          admin, auth>>

\* the state of the stores other than the invoice store
otherStores == <<admin, auth>>

(***************************************************************************)
(* Bounds of the model.                                                    *)
(***************************************************************************)
MaxCalls == 3        \* store actions started in one behaviour of Spec
MaxFeedbacks == 2    \* submitFieldFeedback calls in one behaviour of SpecFeedback

(***************************************************************************)
(* JavaScript values.  A nullable value is a sequence of length 0 (null)   *)
(* or 1 (the value).  An object is a function from its own property names  *)
(* to their values; an absent property is a name outside the DOMAIN.       *)
(***************************************************************************)
Null == << >>
Some(x) == <<x>>
IsNull(v) == v = Null
Unwrap(v) == v[1]

EmptyObject == [k \in {} |-> TRUE]
Has(obj, k) == k \in DOMAIN obj

\* !s for a string s
Falsy(s) == s = ""

(***************************************************************************)
(* types/invoice: FieldFeedback, Invoice.                                  *)
(***************************************************************************)
FieldNames == {"totalAmount"}
Votes == {"upvote", "downvote", "remove"}
InvoiceIds == {"a", "b"}

FieldFeedback(v, u, t) == [vote |-> v, userId |-> u, timestamp |-> t]

A1 == [id |-> "a", userId |-> "u1", status |-> "processing", uploadedAt |-> "2024-01-01",
       vendorName |-> "acme", totalAmount |-> 10,
       fieldFeedback |-> [totalAmount |-> FieldFeedback("upvote", "u1", "2024-01-05"),
                          vendorName |-> FieldFeedback("downvote", "u1", "2024-01-05")]]
A2 == [id |-> "a", userId |-> "u1", status |-> "processed", uploadedAt |-> "2024-01-01",
       processedAt |-> "2024-01-02", totalAmount |-> 12,
       fieldFeedback |-> [totalAmount |-> FieldFeedback("downvote", "u2", "2024-01-06")]]
A3 == [id |-> "a", userId |-> "u1", status |-> "failed", uploadedAt |-> "2024-01-01",
       processedAt |-> "2024-01-02", errorMessage |-> "ocr failed"]
B1 == [id |-> "b", userId |-> "u1", status |-> "processed", uploadedAt |-> "2024-03-01",
       processedAt |-> "2024-03-02", vendorName |-> "bolt", fieldFeedback |-> EmptyObject]
B2 == [id |-> "b", userId |-> "u1", status |-> "processing", uploadedAt |-> "2024-03-01",
       fieldFeedback |-> [vendorName |-> FieldFeedback("upvote", "u2", "2024-03-07")]]

\* Invoice documents the backend can serve
Invoices == {A1, A2, A3, B1, B2}


(***************************************************************************)
(* Remote gateway (services/invoice.service over services/api): the values *)
(* a call can be answered with.                                            *)
(***************************************************************************)
RECURSIVE UniqueIds(_)
UniqueIds(l) ==
  IF Len(l) <= 1 THEN TRUE
  ELSE /\ \A i \in 2..Len(l) : l[i].id # l[1].id
       /\ UniqueIds(Tail(l))

\* lists the backend can serve: ids are unique keys
InvoiceLists ==
  {l \in UNION {[1..n -> Invoices] : n \in 0..Cardinality(InvoiceIds)} : UniqueIds(l)}

\* InvoiceListResponse {invoices, total}; total counts all pages
InvoiceListResponses ==
  {[invoices |-> l, total |-> Len(l) + x] : l \in InvoiceLists, x \in {0, 1}}

\* InvoiceQuery; the optional parameter of fetchInvoices
InvoiceQueries == {Null, Some([sortBy |-> "date", order |-> "asc"])}

Files == {"invoice.pdf"}

\* InvoiceResponse {invoiceId, fileName, status, message?}
InvoiceResponses ==
  {[invoiceId |-> "c", fileName |-> "invoice.pdf", status |-> "processing"]}

DownloadUrls == {"https://storage/signed"}

\* a document without its id property, and one whose id is the empty string
WithoutId(inv) == [k \in DOMAIN inv \ {"id"} |-> inv[k]]
WithEmptyId(inv) == [inv EXCEPT !.id = ""]

\* bodies an otherwise successful PUT feedback can carry: any document
\* (of the annotated invoice or of another one), a document with no usable
\* id, or no body at all
FeedbackBodies ==
  {Some(inv) : inv \in Invoices} \cup {Some(WithoutId(A2)), Some(WithEmptyId(A2)), Null}

(***************************************************************************)
(* services/api: what the response interceptor rejects with                *)
(***************************************************************************)
HttpStatuses == {400, 401, 403, 404, 409, 422, 500}

\* `error` objects of a backend error body
BackendErrors ==
  {[code |-> "invoice/not-found", message |-> "Invoice not found", details |-> "id a"],
   [code |-> "invoice/not-found", message |-> "Invoice not found"],
   [code |-> "", message |-> "Bad request"],
   [code |-> "auth/forbidden"],
   [message |-> "Bad request"],
   EmptyObject}

\* response bodies: none, one without an error object, one with it
ResponseData == {Null, Some(EmptyObject)} \cup {Some([error |-> e]) : e \in BackendErrors}

\* the AxiosError handed to the handler: with a response, with a request
\* that got no response, or with neither
AxiosErrors ==
  {[response |-> Some([status |-> s, data |-> d]), request |-> TRUE, message |-> m] :
     s \in HttpStatuses, d \in ResponseData,
     m \in {"Request failed with status code", ""}} \cup
  {[response |-> Null, request |-> r, message |-> m] :
     r \in BOOLEAN, m \in {"timeout of 30000ms exceeded", "Invalid URL"}}

\* data?.error?.[key]
ErrorField(data, key) ==
  IF IsNull(data) THEN Null
  ELSE IF ~Has(Unwrap(data), "error") THEN Null
  ELSE IF ~Has(Unwrap(data).error, key) THEN Null
  ELSE Some(Unwrap(data).error[key])

\* value || fallback for an optional string
OrElse(value, fallback) ==
  IF IsNull(value) THEN fallback
  ELSE IF Falsy(Unwrap(value)) THEN fallback
  ELSE Unwrap(value)

\* variant: one rejection for every error without a response
RejectionNetworkForAll(axiosError) ==
  IF ~IsNull(axiosError.response)
  THEN LET status == Unwrap(axiosError.response).status
           data == Unwrap(axiosError.response).data
       IN [code |-> OrElse(ErrorField(data, "code"), "http/" \o ToString(status)),
           message |-> OrElse(ErrorField(data, "message"), axiosError.message),
           details |-> ErrorField(data, "details")]
  ELSE [code |-> "network-error",
        message |-> "Unable to connect to server. Please check your internet connection."]

\* the object the handler rejects with
Rejection(axiosError) ==
  IF ~IsNull(axiosError.response)
  THEN LET status == Unwrap(axiosError.response).status
           data == Unwrap(axiosError.response).data
       IN [code |-> OrElse(ErrorField(data, "code"), "http/" \o ToString(status)),
           message |-> OrElse(ErrorField(data, "message"), axiosError.message),
           details |-> ErrorField(data, "details")]
  ELSE IF axiosError.request
  THEN [code |-> "network-error",
        message |-> "Unable to connect to server. Please check your internet connection."]
  ELSE [code |-> "request-error", message |-> axiosError.message]

\* the failed calls the stores are run against: no response came back; the
\* server answered 500 without an error body and the AxiosError has no
\* message
FailedCalls ==
  {[response |-> Null, request |-> TRUE, message |-> "timeout of 30000ms exceeded"],
   [response |-> Some([status |-> 500, data |-> Null]), request |-> TRUE, message |-> ""]}

\* what a failed gateway call rejects with: the interceptor's rejections
ApiErrors == {Rejection(axiosError) : axiosError \in FailedCalls}

\* variant of MessageOr without the fallback text
MessageOnly(err, fallback) ==
  IF Has(err, "message") THEN err.message ELSE ""

\* err.message || fallback
MessageOr(err, fallback) ==
  IF Has(err, "message") /\ ~Falsy(err.message) THEN err.message ELSE fallback

(***************************************************************************)
(* Gateway calls in flight.                                                *)
(***************************************************************************)
One(r) == SetToBag({r})
InFlight == BagToSet(pending)

\* the last step taken: the store action it belongs to, how far the action
\* got ("call", "refresh", "resolved", "rejected", or "sync" for an action
\* without await), the gateway request involved, whether the gateway
\* answered it ("ok"), failed it ("failed") or was not heard ("none"), the
\* gateway's answer, and the value the action's promise settled with
Event(op, phase, req, gateway, answer, value) ==
  [op |-> op, phase |-> phase, req |-> req, gateway |-> gateway,
   answer |-> answer, value |-> value]

\* useAuthStore as constructed
AuthInit == [currentUser |-> Null, loading |-> FALSE, error |-> Null, isAuthenticated |-> FALSE]

\* useAdminStore as constructed
AdminInit ==
  [users |-> << >>, allInvoices |-> << >>, statistics |-> Null, loading |-> FALSE,
   error |-> Null, totalUsers |-> 0, totalInvoices |-> 0]

Init ==
  /\ invoices = << >>
  /\ currentInvoice = Null
  /\ loading = FALSE
  /\ error = Null
  /\ total = 0
  /\ pending = EmptyBag
  /\ calls = 0
  /\ ev = Event("init", "init", Null, "none", Null, Null)
  /\ admin = AdminInit
  /\ auth = AuthInit

(***************************************************************************)
(* fetchInvoices                                                           *)
(***************************************************************************)
\* fetchInvoices(query) up to the await of invoiceService.getInvoices;
\* `issued` numbers the calls of a behaviour, to tell the order of the
\* requests from the order of their answers
FetchInvoicesCall(query) ==
  /\ loading' = TRUE
  /\ error' = Null
  /\ LET req == [call |-> "getInvoices", op |-> "fetchInvoices", query |-> query,
                 issued |-> calls + 1]
     IN /\ pending' = pending (+) One(req)
        /\ ev' = Event("fetchInvoices", "call", Some(req), "none", Null, Null)
  /\ UNCHANGED <<invoices, currentInvoice, total>>
  /\ calls' = calls + 1
  /\ UNCHANGED otherStores

\* variant of FetchInvoicesResolved that adds the page to the cached list
\* instead of replacing the list
FetchInvoicesResolvedAppending(req, response) ==
  /\ req \in InFlight
  /\ req.call = "getInvoices" /\ req.op = "fetchInvoices"
  /\ invoices' = invoices \o response.invoices
  /\ total' = response.total
  /\ loading' = FALSE
  /\ pending' = pending (-) One(req)
  /\ ev' = Event("fetchInvoices", "resolved", Some(req), "ok", Some(response), Null)
  /\ UNCHANGED <<currentInvoice, error, calls>>
  /\ UNCHANGED otherStores

\* variant of FetchInvoicesResolved that drops the response of a request
\* while a list request issued after it is in flight
FetchInvoicesResolvedUnlessSuperseded(req, response) ==
  /\ req \in InFlight
  /\ req.call = "getInvoices" /\ req.op = "fetchInvoices"
  /\ LET superseded == \E r \in InFlight : /\ r.call = "getInvoices"
                                            /\ r.op = "fetchInvoices"
                                            /\ r.issued > req.issued
     IN /\ invoices' = IF superseded THEN invoices ELSE response.invoices
        /\ total' = IF superseded THEN total ELSE response.total
  /\ loading' = FALSE
  /\ pending' = pending (-) One(req)
  /\ ev' = Event("fetchInvoices", "resolved", Some(req), "ok", Some(response), Null)
  /\ UNCHANGED <<currentInvoice, error, calls>>
  /\ UNCHANGED otherStores

\* the try block after the await
FetchInvoicesResolved(req, response) ==
  /\ req \in InFlight
  /\ req.call = "getInvoices" /\ req.op = "fetchInvoices"
  /\ invoices' = response.invoices
  /\ total' = response.total
  /\ loading' = FALSE
  /\ pending' = pending (-) One(req)
  /\ ev' = Event("fetchInvoices", "resolved", Some(req), "ok", Some(response), Null)
  /\ UNCHANGED <<currentInvoice, error, calls>>
  /\ UNCHANGED otherStores

\* variant of FetchInvoicesRejected that empties the cache on failure
FetchInvoicesRejectedClearing(req, err) ==
  /\ req \in InFlight
  /\ req.call = "getInvoices" /\ req.op = "fetchInvoices"
  /\ invoices' = << >>
  /\ total' = 0
  /\ error' = Some(MessageOr(err, "Failed to fetch invoices"))
  /\ loading' = FALSE
  /\ pending' = pending (-) One(req)
  /\ ev' = Event("fetchInvoices", "rejected", Some(req), "failed", Some(err), Some(err))
  /\ UNCHANGED <<currentInvoice, calls>>
  /\ UNCHANGED otherStores

\* the catch and finally blocks
FetchInvoicesRejected(req, err) ==
  /\ req \in InFlight
  /\ req.call = "getInvoices" /\ req.op = "fetchInvoices"
  /\ error' = Some(MessageOr(err, "Failed to fetch invoices"))
  /\ loading' = FALSE
  /\ pending' = pending (-) One(req)
  /\ ev' = Event("fetchInvoices", "rejected", Some(req), "failed", Some(err), Some(err))
  /\ UNCHANGED <<invoices, currentInvoice, total, calls>>
  /\ UNCHANGED otherStores

(***************************************************************************)
(* uploadInvoice                                                           *)
(***************************************************************************)
\* uploadInvoice(file) up to the await of invoiceService.uploadInvoice
UploadInvoiceCall(file) ==
  /\ loading' = TRUE
  /\ error' = Null
  /\ LET req == [call |-> "uploadInvoice", op |-> "uploadInvoice", file |-> file]
     IN /\ pending' = pending (+) One(req)
        /\ ev' = Event("uploadInvoice", "call", Some(req), "none", Null, Null)
  /\ UNCHANGED <<invoices, currentInvoice, total>>
  /\ calls' = calls + 1
  /\ UNCHANGED otherStores

\* the upload was accepted: `await fetchInvoices()` runs fetchInvoices with
\* no query up to its own await
UploadInvoiceAccepted(req, response) ==
  /\ req \in InFlight
  /\ req.call = "uploadInvoice"
  /\ loading' = TRUE
  /\ error' = Null
  /\ LET refresh == [call |-> "getInvoices", op |-> "uploadInvoice",
                     query |-> Null, response |-> response]
     IN /\ pending' = (pending (-) One(req)) (+) One(refresh)
        /\ ev' = Event("uploadInvoice", "refresh", Some(req), "ok", Some(response), Null)
  /\ UNCHANGED <<invoices, currentInvoice, total, calls>>
  /\ UNCHANGED otherStores

\* variant: the refresh runs in the finally block, also after a failed upload
UploadInvoiceRejectedRefreshing(req, err) ==
  /\ req \in InFlight
  /\ req.call = "uploadInvoice"
  /\ error' = Some(MessageOr(err, "Failed to upload invoice"))
  /\ loading' = FALSE
  /\ LET refresh == [call |-> "getInvoices", op |-> "uploadInvoice",
                     query |-> Null, response |-> err]
     IN pending' = (pending (-) One(req)) (+) One(refresh)
  /\ ev' = Event("uploadInvoice", "rejected", Some(req), "failed", Some(err), Some(err))
  /\ UNCHANGED <<invoices, currentInvoice, total, calls>>
  /\ UNCHANGED otherStores

\* the upload call failed: catch and finally of uploadInvoice
UploadInvoiceRejected(req, err) ==
  /\ req \in InFlight
  /\ req.call = "uploadInvoice"
  /\ error' = Some(MessageOr(err, "Failed to upload invoice"))
  /\ loading' = FALSE
  /\ pending' = pending (-) One(req)
  /\ ev' = Event("uploadInvoice", "rejected", Some(req), "failed", Some(err), Some(err))
  /\ UNCHANGED <<invoices, currentInvoice, total, calls>>
  /\ UNCHANGED otherStores

\* the refresh was answered: the rest of the fetchInvoices that
\* uploadInvoice awaits (list and total replaced, its finally block); the
\* uploadInvoice that awaits it resumes in a later step
UploadInvoiceRefreshResolved(req, listResponse) ==
  /\ req \in InFlight
  /\ req.call = "getInvoices" /\ req.op = "uploadInvoice"
  /\ invoices' = listResponse.invoices
  /\ total' = listResponse.total
  /\ loading' = FALSE
  /\ LET awaited == [call |-> "fetchInvoices", op |-> "uploadInvoice",
                     response |-> req.response, thrown |-> Null]
     IN pending' = (pending (-) One(req)) (+) One(awaited)
  /\ ev' = Event("fetchInvoices", "resolved", Some(req), "ok", Some(listResponse), Null)
  /\ UNCHANGED <<currentInvoice, error, calls>>
  /\ UNCHANGED otherStores

\* the refresh failed: catch and finally of the fetchInvoices that
\* uploadInvoice awaits; the rejection reaches uploadInvoice in a later step
UploadInvoiceRefreshFailed(req, err) ==
  /\ req \in InFlight
  /\ req.call = "getInvoices" /\ req.op = "uploadInvoice"
  /\ error' = Some(MessageOr(err, "Failed to fetch invoices"))
  /\ loading' = FALSE
  /\ LET awaited == [call |-> "fetchInvoices", op |-> "uploadInvoice",
                     response |-> req.response, thrown |-> Some(err)]
     IN pending' = (pending (-) One(req)) (+) One(awaited)
  /\ ev' = Event("fetchInvoices", "rejected", Some(req), "failed", Some(err), Some(err))
  /\ UNCHANGED <<invoices, currentInvoice, total, calls>>
  /\ UNCHANGED otherStores

\* variant: uploadInvoice returns what the awaited fetchInvoices returned
UploadInvoiceResolvedReturningRefresh(req) ==
  /\ req \in InFlight
  /\ req.call = "fetchInvoices" /\ req.op = "uploadInvoice"
  /\ IsNull(req.thrown)
  /\ loading' = FALSE
  /\ pending' = pending (-) One(req)
  /\ ev' = Event("uploadInvoice", "resolved", Some(req), "ok", Null, Null)
  /\ UNCHANGED <<invoices, currentInvoice, total, error, calls>>
  /\ UNCHANGED otherStores

\* `await fetchInvoices()` returned: `return response`, then the finally
\* block of uploadInvoice
UploadInvoiceResolved(req) ==
  /\ req \in InFlight
  /\ req.call = "fetchInvoices" /\ req.op = "uploadInvoice"
  /\ IsNull(req.thrown)
  /\ loading' = FALSE
  /\ pending' = pending (-) One(req)
  /\ ev' = Event("uploadInvoice", "resolved", Some(req), "ok", Null, Some(req.response))
  /\ UNCHANGED <<invoices, currentInvoice, total, error, calls>>
  /\ UNCHANGED otherStores

\* `await fetchInvoices()` threw: catch and finally of uploadInvoice, which
\* writes the error slot over the text fetchInvoices left there
UploadInvoiceRefreshRejected(req) ==
  /\ req \in InFlight
  /\ req.call = "fetchInvoices" /\ req.op = "uploadInvoice"
  /\ ~IsNull(req.thrown)
  /\ error' = Some(MessageOr(Unwrap(req.thrown), "Failed to upload invoice"))
  /\ loading' = FALSE
  /\ pending' = pending (-) One(req)
  /\ ev' = Event("uploadInvoice", "rejected", Some(req), "failed", req.thrown, req.thrown)
  /\ UNCHANGED <<invoices, currentInvoice, total, calls>>
  /\ UNCHANGED otherStores

(***************************************************************************)
(* fetchInvoiceDetail                                                      *)
(***************************************************************************)
\* what GET detail(id) serves for an id
InvoicesOf(invoiceId) == {inv \in Invoices : inv.id = invoiceId}

\* variant of FetchInvoiceDetailCall that keeps the message of an earlier failure
FetchInvoiceDetailCallKeepingError(invoiceId) ==
  /\ loading' = TRUE
  /\ LET req == [call |-> "getInvoiceById", op |-> "fetchInvoiceDetail",
                 invoiceId |-> invoiceId]
     IN /\ pending' = pending (+) One(req)
        /\ ev' = Event("fetchInvoiceDetail", "call", Some(req), "none", Null, Null)
  /\ UNCHANGED <<invoices, currentInvoice, total, error>>
  /\ calls' = calls + 1
  /\ UNCHANGED otherStores

FetchInvoiceDetailCall(invoiceId) ==
  /\ loading' = TRUE
  /\ error' = Null
  /\ LET req == [call |-> "getInvoiceById", op |-> "fetchInvoiceDetail",
                 invoiceId |-> invoiceId]
     IN /\ pending' = pending (+) One(req)
        /\ ev' = Event("fetchInvoiceDetail", "call", Some(req), "none", Null, Null)
  /\ UNCHANGED <<invoices, currentInvoice, total>>
  /\ calls' = calls + 1
  /\ UNCHANGED otherStores

\* variant: the fetched detail is also written into the list entry of its id
FetchInvoiceDetailResolvedSyncingList(req, invoice) ==
  /\ req \in InFlight
  /\ req.call = "getInvoiceById"
  /\ currentInvoice' = Some(invoice)
  /\ invoices' = [i \in 1..Len(invoices) |->
                    IF invoices[i].id = invoice.id THEN invoice ELSE invoices[i]]
  /\ loading' = FALSE
  /\ pending' = pending (-) One(req)
  /\ ev' = Event("fetchInvoiceDetail", "resolved", Some(req), "ok", Some(invoice), Some(invoice))
  /\ UNCHANGED <<total, error, calls>>
  /\ UNCHANGED otherStores

FetchInvoiceDetailResolved(req, invoice) ==
  /\ req \in InFlight
  /\ req.call = "getInvoiceById"
  /\ currentInvoice' = Some(invoice)
  /\ loading' = FALSE
  /\ pending' = pending (-) One(req)
  /\ ev' = Event("fetchInvoiceDetail", "resolved", Some(req), "ok", Some(invoice), Some(invoice))
  /\ UNCHANGED <<invoices, total, error, calls>>
  /\ UNCHANGED otherStores

\* variant of FetchInvoiceDetailRejected that clears the loading flag only
\* on the success path (no finally block)
FetchInvoiceDetailRejectedNoFinally(req, err) ==
  /\ req \in InFlight
  /\ req.call = "getInvoiceById"
  /\ error' = Some(MessageOr(err, "Failed to fetch invoice details"))
  /\ pending' = pending (-) One(req)
  /\ ev' = Event("fetchInvoiceDetail", "rejected", Some(req), "failed", Some(err), Some(err))
  /\ UNCHANGED <<invoices, currentInvoice, loading, total, calls>>
  /\ UNCHANGED otherStores

FetchInvoiceDetailRejected(req, err) ==
  /\ req \in InFlight
  /\ req.call = "getInvoiceById"
  /\ error' = Some(MessageOr(err, "Failed to fetch invoice details"))
  /\ loading' = FALSE
  /\ pending' = pending (-) One(req)
  /\ ev' = Event("fetchInvoiceDetail", "rejected", Some(req), "failed", Some(err), Some(err))
  /\ UNCHANGED <<invoices, currentInvoice, total, calls>>
  /\ UNCHANGED otherStores

(***************************************************************************)
(* getDownloadUrl                                                          *)
(***************************************************************************)
GetDownloadUrlCall(invoiceId) ==
  /\ loading' = TRUE
  /\ error' = Null
  /\ LET req == [call |-> "getDownloadUrl", op |-> "getDownloadUrl",
                 invoiceId |-> invoiceId]
     IN /\ pending' = pending (+) One(req)
        /\ ev' = Event("getDownloadUrl", "call", Some(req), "none", Null, Null)
  /\ UNCHANGED <<invoices, currentInvoice, total>>
  /\ calls' = calls + 1
  /\ UNCHANGED otherStores

\* variant: the url is cached on the current invoice
GetDownloadUrlResolvedCaching(req, url) ==
  /\ req \in InFlight
  /\ req.call = "getDownloadUrl"
  /\ currentInvoice' = IF IsNull(currentInvoice) THEN Null
                        ELSE Some(("downloadUrl" :> url) @@ Unwrap(currentInvoice))
  /\ loading' = FALSE
  /\ pending' = pending (-) One(req)
  /\ ev' = Event("getDownloadUrl", "resolved", Some(req), "ok", Some([url |-> url]), Some(url))
  /\ UNCHANGED <<invoices, total, error, calls>>
  /\ UNCHANGED otherStores

\* variant: loading is cleared only when no other loading operation is in
\* flight
GetDownloadUrlResolvedCounting(req, url) ==
  /\ req \in InFlight
  /\ req.call = "getDownloadUrl"
  /\ loading' = (\E r \in BagToSet(pending (-) One(req)) :
                   r.op \in {"fetchInvoices", "uploadInvoice", "fetchInvoiceDetail",
                             "getDownloadUrl"})
  /\ pending' = pending (-) One(req)
  /\ ev' = Event("getDownloadUrl", "resolved", Some(req), "ok", Some([url |-> url]), Some(url))
  /\ UNCHANGED <<invoices, currentInvoice, total, error, calls>>
  /\ UNCHANGED otherStores

GetDownloadUrlResolved(req, url) ==
  /\ req \in InFlight
  /\ req.call = "getDownloadUrl"
  /\ loading' = FALSE
  /\ pending' = pending (-) One(req)
  /\ ev' = Event("getDownloadUrl", "resolved", Some(req), "ok", Some([url |-> url]), Some(url))
  /\ UNCHANGED <<invoices, currentInvoice, total, error, calls>>
  /\ UNCHANGED otherStores

GetDownloadUrlRejected(req, err) ==
  /\ req \in InFlight
  /\ req.call = "getDownloadUrl"
  /\ error' = Some(MessageOr(err, "Failed to get download URL"))
  /\ loading' = FALSE
  /\ pending' = pending (-) One(req)
  /\ ev' = Event("getDownloadUrl", "rejected", Some(req), "failed", Some(err), Some(err))
  /\ UNCHANGED <<invoices, currentInvoice, total, calls>>
  /\ UNCHANGED otherStores

(***************************************************************************)
(* clearError, clearCurrentInvoice                                         *)
(***************************************************************************)
ClearError ==
  /\ error' = Null
  /\ ev' = Event("clearError", "sync", Null, "none", Null, Null)
  /\ UNCHANGED <<invoices, currentInvoice, loading, total, pending, calls>>
  /\ UNCHANGED otherStores

\* variant: a reset that clears the error slot together with the selection
ClearCurrentInvoiceResetting ==
  /\ currentInvoice' = Null
  /\ error' = Null
  /\ ev' = Event("clearCurrentInvoice", "sync", Null, "none", Null, Null)
  /\ UNCHANGED <<invoices, loading, total, pending, calls>>
  /\ UNCHANGED otherStores

\* variant: clearing the selection aborts the detail calls in flight
ClearCurrentInvoiceAborting ==
  /\ currentInvoice' = Null
  /\ pending' = LET kept == {r \in BagToSet(pending) : r.call # "getInvoiceById"}
                IN [r \in kept |-> CopiesIn(r, pending)]
  /\ ev' = Event("clearCurrentInvoice", "sync", Null, "none", Null, Null)
  /\ UNCHANGED <<invoices, loading, error, total, calls>>
  /\ UNCHANGED otherStores

ClearCurrentInvoice ==
  /\ currentInvoice' = Null
  /\ ev' = Event("clearCurrentInvoice", "sync", Null, "none", Null, Null)
  /\ UNCHANGED <<invoices, loading, error, total, pending, calls>>
  /\ UNCHANGED otherStores

(***************************************************************************)
(* submitFieldFeedback                                                     *)
(***************************************************************************)
\* !updatedInvoice || !updatedInvoice.id
InvalidResponse(updatedInvoice) ==
  IF IsNull(updatedInvoice) THEN TRUE
  ELSE IF ~Has(Unwrap(updatedInvoice), "id") THEN TRUE
  ELSE Falsy(Unwrap(updatedInvoice).id)

\* updatedInvoice.fieldFeedback || {}
FeedbackOrEmpty(updatedInvoice) ==
  IF Has(updatedInvoice, "fieldFeedback") THEN updatedInvoice.fieldFeedback
  ELSE EmptyObject

\* variant of MergeInvoice that merges the two feedback maps key by key
MergeInvoiceDeep(local, updatedInvoice) ==
  LET mine == IF Has(local, "fieldFeedback") THEN local.fieldFeedback ELSE EmptyObject
      theirs == FeedbackOrEmpty(updatedInvoice)
  IN [k \in DOMAIN local \cup DOMAIN updatedInvoice \cup {"fieldFeedback"} |->
        IF k = "fieldFeedback"
        THEN [f \in DOMAIN mine \cup DOMAIN theirs |->
                IF f \in DOMAIN theirs THEN theirs[f] ELSE mine[f]]
        ELSE IF k \in DOMAIN updatedInvoice THEN updatedInvoice[k]
        ELSE local[k]]

\* { ...local, ...updatedInvoice, fieldFeedback: updatedInvoice.fieldFeedback || {} }
MergeInvoice(local, updatedInvoice) ==
  [k \in DOMAIN local \cup DOMAIN updatedInvoice \cup {"fieldFeedback"} |->
     IF k = "fieldFeedback" THEN FeedbackOrEmpty(updatedInvoice)
     ELSE IF k \in DOMAIN updatedInvoice THEN updatedInvoice[k]
     ELSE local[k]]

\* currentInvoice.value && currentInvoice.value.id === invoiceId
CurrentHas(current, invoiceId) ==
  /\ ~IsNull(current)
  /\ Has(Unwrap(current), "id")
  /\ Unwrap(current).id = invoiceId

\* invoices.value.findIndex(inv => inv.id === invoiceId); positions count
\* from 1, -1 when there is no such entry
FindIndex(list, invoiceId) ==
  LET hits == {i \in 1..Len(list) : Has(list[i], "id") /\ list[i].id = invoiceId}
  IN IF hits = {} THEN -1
     ELSE CHOOSE i \in hits : \A j \in hits : i <= j

\* variant of ReconcileCurrent that does not compare the ids
ReconcileCurrentAnyId(current, invoiceId, updatedInvoice) ==
  IF ~IsNull(current)
  THEN Some(MergeInvoice(Unwrap(current), updatedInvoice))
  ELSE current

\* the two slot updates of submitFieldFeedback
ReconcileCurrent(current, invoiceId, updatedInvoice) ==
  IF CurrentHas(current, invoiceId)
  THEN Some(MergeInvoice(Unwrap(current), updatedInvoice))
  ELSE current

\* variant of ReconcileList that skips the list when the current invoice
\* holds the id and is reconciled already
ReconcileListUnlessCurrent(list, invoiceId, updatedInvoice) ==
  LET index == FindIndex(list, invoiceId)
  IN IF index # -1 /\ ~CurrentHas(currentInvoice, invoiceId)
     THEN [list EXCEPT ![index] = MergeInvoice(list[index], updatedInvoice)]
     ELSE list

\* variant of ReconcileList that inserts the invoice when the list lacks it
ReconcileListUpsert(list, invoiceId, updatedInvoice) ==
  LET index == FindIndex(list, invoiceId)
  IN IF index # -1
     THEN [list EXCEPT ![index] = MergeInvoice(list[index], updatedInvoice)]
     ELSE Append(list, updatedInvoice)

ReconcileList(list, invoiceId, updatedInvoice) ==
  LET index == FindIndex(list, invoiceId)
  IN IF index # -1
     THEN [list EXCEPT ![index] = MergeInvoice(list[index], updatedInvoice)]
     ELSE list

\* variant: feedback is refused locally unless an invoice is loaded
SubmitFieldFeedbackCallNeedingCurrent(invoiceId, fieldName, vote) ==
  LET req == [call |-> "submitFieldFeedback", op |-> "submitFieldFeedback",
              invoiceId |-> invoiceId,
              feedback |-> [fieldName |-> fieldName, vote |-> vote]]
      err == [message |-> "No invoice loaded"]
  IN /\ IF IsNull(currentInvoice)
        THEN /\ error' = Some(err.message)
             /\ pending' = pending
             /\ ev' = Event("submitFieldFeedback", "rejected", Some(req), "none", Null,
                            Some(err))
        ELSE /\ error' = Null
             /\ pending' = pending (+) One(req)
             /\ ev' = Event("submitFieldFeedback", "call", Some(req), "none", Null, Null)
     /\ UNCHANGED <<invoices, currentInvoice, loading, total>>
     /\ calls' = calls + 1
     /\ UNCHANGED otherStores

SubmitFieldFeedbackCall(invoiceId, fieldName, vote) ==
  /\ error' = Null
  /\ LET req == [call |-> "submitFieldFeedback", op |-> "submitFieldFeedback",
                 invoiceId |-> invoiceId,
                 feedback |-> [fieldName |-> fieldName, vote |-> vote]]
     IN /\ pending' = pending (+) One(req)
        /\ ev' = Event("submitFieldFeedback", "call", Some(req), "none", Null, Null)
  /\ UNCHANGED <<invoices, currentInvoice, loading, total>>
  /\ calls' = calls + 1
  /\ UNCHANGED otherStores

\* variant: only the current invoice is reconciled, the list is left alone
SubmitFieldFeedbackResolvedCurrentOnly(req, body) ==
  /\ req \in InFlight
  /\ req.call = "submitFieldFeedback"
  /\ ~InvalidResponse(body)
  /\ LET updatedInvoice == Unwrap(body)
     IN /\ currentInvoice' = ReconcileCurrent(currentInvoice, req.invoiceId, updatedInvoice)
        /\ ev' = Event("submitFieldFeedback", "resolved", Some(req), "ok", Some(body),
                       Some([success |-> TRUE, invoice |-> updatedInvoice]))
  /\ pending' = pending (-) One(req)
  /\ UNCHANGED <<invoices, loading, error, total, calls>>
  /\ UNCHANGED otherStores

\* the gateway answered and the body passed the validation
SubmitFieldFeedbackResolved(req, body) ==
  /\ req \in InFlight
  /\ req.call = "submitFieldFeedback"
  /\ ~InvalidResponse(body)
  /\ LET updatedInvoice == Unwrap(body)
     IN /\ currentInvoice' = ReconcileCurrent(currentInvoice, req.invoiceId, updatedInvoice)
        /\ invoices' = ReconcileList(invoices, req.invoiceId, updatedInvoice)
        /\ ev' = Event("submitFieldFeedback", "resolved", Some(req), "ok", Some(body),
                       Some([success |-> TRUE, invoice |-> updatedInvoice]))
  /\ pending' = pending (-) One(req)
  /\ UNCHANGED <<loading, error, total, calls>>
  /\ UNCHANGED otherStores

\* the gateway answered and the validation threw
SubmitFieldFeedbackInvalid(req, body) ==
  /\ req \in InFlight
  /\ req.call = "submitFieldFeedback"
  /\ InvalidResponse(body)
  /\ LET err == [message |-> "Invalid response from server"]
     IN /\ error' = Some(MessageOr(err, "Failed to submit feedback"))
        /\ ev' = Event("submitFieldFeedback", "rejected", Some(req), "ok", Some(body), Some(err))
  /\ pending' = pending (-) One(req)
  /\ UNCHANGED <<invoices, currentInvoice, loading, total, calls>>
  /\ UNCHANGED otherStores

\* the gateway call failed
SubmitFieldFeedbackRejected(req, err) ==
  /\ req \in InFlight
  /\ req.call = "submitFieldFeedback"
  /\ error' = Some(MessageOr(err, "Failed to submit feedback"))
  /\ pending' = pending (-) One(req)
  /\ ev' = Event("submitFieldFeedback", "rejected", Some(req), "failed", Some(err), Some(err))
  /\ UNCHANGED <<invoices, currentInvoice, loading, total, calls>>
  /\ UNCHANGED otherStores

(***************************************************************************)
(* Getters of the invoice store                                            *)
(***************************************************************************)
\* new Date(s).getTime() for the ISO dates of the documents, in seconds
\* (getTime counts milliseconds, 1000 times these values)
GetTime(date) ==
  CASE date = "2024-01-01" -> 1704067200
    [] date = "2024-01-02" -> 1704153600
    [] date = "2024-02-01" -> 1706745600
    [] date = "2024-03-01" -> 1709251200
    [] date = "2024-03-02" -> 1709337600

\* variant: the comparator of an ascending sort
CompareUploadedAtAscending(a, b) == GetTime(a.uploadedAt) - GetTime(b.uploadedAt)

\* the comparator handed to sort: dateB - dateA
CompareUploadedAt(a, b) == GetTime(b.uploadedAt) - GetTime(a.uploadedAt)

\* Array.prototype.sort on a copy of the list: a stable sort, an element is
\* placed behind every earlier element the comparator does not put after it
RECURSIVE Sort(_)
Sort(list) ==
  IF list = << >> THEN << >>
  ELSE LET n == Len(list)
           x == list[n]
           rest == Sort(SubSeq(list, 1, n - 1))
           k == Cardinality({i \in 1..Len(rest) : CompareUploadedAt(rest[i], x) <= 0})
       IN SubSeq(rest, 1, k) \o <<x>> \o SubSeq(rest, k + 1, Len(rest))

SortedInvoices == Sort(invoices)
TotalInvoices == total
\* variant: the platform-wide figure is preferred once statistics are loaded
ProcessingInvoicesFromStatistics ==
  IF ~IsNull(admin.statistics) /\ Has(Unwrap(admin.statistics), "processingInvoices")
  THEN Unwrap(admin.statistics).processingInvoices
  ELSE Len(SelectSeq(invoices, LAMBDA inv : inv.status = "processing"))

ProcessingInvoices == Len(SelectSeq(invoices, LAMBDA inv : inv.status = "processing"))
ProcessedInvoices == Len(SelectSeq(invoices, LAMBDA inv : inv.status = "processed"))
FailedInvoices == Len(SelectSeq(invoices, LAMBDA inv : inv.status = "failed"))

\* a component reads a getter: the store is left as it is
ReadGetter(name, value) ==
  /\ ev' = Event(name, "read", Null, "none", Null, Some(value))
  /\ UNCHANGED <<invoices, currentInvoice, loading, error, total, pending, calls>>
  /\ UNCHANGED otherStores

ReadSortedInvoices == ReadGetter("sortedInvoices", SortedInvoices)
ReadTotalInvoices == ReadGetter("totalInvoices", TotalInvoices)
ReadProcessingInvoices == ReadGetter("processingInvoices", ProcessingInvoices)
ReadProcessedInvoices == ReadGetter("processedInvoices", ProcessedInvoices)
ReadFailedInvoices == ReadGetter("failedInvoices", FailedInvoices)

(***************************************************************************)
(* The store from its construction, driven by a UI that starts at most     *)
(* MaxCalls actions and by a gateway that answers the calls in flight in   *)
(* any order.                                                              *)
(***************************************************************************)
CanCall == calls < MaxCalls

\* answers of the gateway in Spec
ListAnswers ==
  {[invoices |-> << >>, total |-> 0],
   [invoices |-> <<A1>>, total |-> 1],
   [invoices |-> <<A1, B1>>, total |-> 3],
   [invoices |-> <<B2, A3>>, total |-> 2]}
DetailAnswers == {A1, A3, B1}
FeedbackAnswers == {Some(A2), Some(B2), Some(WithEmptyId(A2)), Null}

Next ==
  \/ CanCall /\ \E q \in InvoiceQueries : FetchInvoicesCall(q)
  \/ \E req \in InFlight, r \in ListAnswers : FetchInvoicesResolved(req, r)
  \/ \E req \in InFlight, e \in ApiErrors : FetchInvoicesRejected(req, e)
  \/ CanCall /\ \E f \in Files : UploadInvoiceCall(f)
  \/ \E req \in InFlight, r \in InvoiceResponses : UploadInvoiceAccepted(req, r)
  \/ \E req \in InFlight, e \in ApiErrors : UploadInvoiceRejected(req, e)
  \/ \E req \in InFlight, r \in ListAnswers : UploadInvoiceRefreshResolved(req, r)
  \/ \E req \in InFlight, e \in ApiErrors : UploadInvoiceRefreshFailed(req, e)
  \/ \E req \in InFlight : UploadInvoiceResolved(req)
  \/ \E req \in InFlight : UploadInvoiceRefreshRejected(req)
  \/ CanCall /\ \E id \in InvoiceIds : FetchInvoiceDetailCall(id)
  \/ \E req \in InFlight, inv \in DetailAnswers : FetchInvoiceDetailResolved(req, inv)
  \/ \E req \in InFlight, e \in ApiErrors : FetchInvoiceDetailRejected(req, e)
  \/ CanCall /\ \E id \in InvoiceIds : GetDownloadUrlCall(id)
  \/ \E req \in InFlight, u \in DownloadUrls : GetDownloadUrlResolved(req, u)
  \/ \E req \in InFlight, e \in ApiErrors : GetDownloadUrlRejected(req, e)
  \/ ClearError
  \/ ClearCurrentInvoice
  \/ CanCall /\ \E id \in InvoiceIds, f \in FieldNames, v \in Votes :
                  SubmitFieldFeedbackCall(id, f, v)
  \/ \E req \in InFlight, b \in FeedbackAnswers : SubmitFieldFeedbackResolved(req, b)
  \/ \E req \in InFlight, b \in FeedbackAnswers : SubmitFieldFeedbackInvalid(req, b)
  \/ \E req \in InFlight, e \in ApiErrors : SubmitFieldFeedbackRejected(req, e)

Spec == Init /\ [][Next]_vars

(***************************************************************************)
(* The feedback reconciler on a warm store: the list and the current       *)
(* invoice are whatever fetchInvoices and fetchInvoiceDetail left there,   *)
(* and the UI submits at most MaxFeedbacks votes, which the gateway        *)
(* answers in any order with any body.                                     *)
(***************************************************************************)
InitFeedback ==
  /\ invoices \in InvoiceLists
  /\ currentInvoice \in {Null} \cup {Some(inv) : inv \in Invoices}
  /\ loading = FALSE
  /\ error = Null
  /\ total = Len(invoices)
  /\ pending = EmptyBag
  /\ calls = 0
  /\ ev = Event("init", "init", Null, "none", Null, Null)
  /\ admin = AdminInit
  /\ auth = AuthInit

NextFeedback ==
  \/ calls < MaxFeedbacks /\ \E id \in InvoiceIds, f \in FieldNames, v \in Votes :
                               SubmitFieldFeedbackCall(id, f, v)
  \/ \E req \in InFlight, b \in FeedbackBodies : SubmitFieldFeedbackResolved(req, b)
  \/ \E req \in InFlight, b \in FeedbackBodies : SubmitFieldFeedbackInvalid(req, b)
  \/ \E req \in InFlight, e \in ApiErrors : SubmitFieldFeedbackRejected(req, e)

SpecFeedback == InitFeedback /\ [][NextFeedback]_vars

(***************************************************************************)
(* The feedback reconciler against a gateway that applies the vote: the    *)
(* response is a document of the annotated invoice whose feedback map has  *)
(* the voted field set, or deleted when the vote is remove.                *)
(***************************************************************************)
\* the feedback map after the vote
VotedMap(map, feedback) ==
  IF feedback.vote = "remove"
  THEN [k \in DOMAIN map \ {feedback.fieldName} |-> map[k]]
  ELSE (feedback.fieldName :> FieldFeedback(feedback.vote, "u1", "2024-03-07")) @@ map

\* the document PUT feedback returns for a stored document; a map that has
\* become empty is sent as {} or left out
ServerEcho(doc, feedback, omitEmpty) ==
  LET map == VotedMap(IF Has(doc, "fieldFeedback") THEN doc.fieldFeedback ELSE EmptyObject,
                      feedback)
  IN IF omitEmpty /\ DOMAIN map = {}
     THEN [k \in DOMAIN doc \ {"fieldFeedback"} |-> doc[k]]
     ELSE ("fieldFeedback" :> map) @@ doc

NextRemoval ==
  \/ calls < MaxFeedbacks /\ \E id \in InvoiceIds, f \in FieldNames, v \in Votes :
                               SubmitFieldFeedbackCall(id, f, v)
  \/ \E req \in InFlight :
       /\ req.call = "submitFieldFeedback"
       /\ \E doc \in InvoicesOf(req.invoiceId), omitEmpty \in BOOLEAN :
            SubmitFieldFeedbackResolved(req, Some(ServerEcho(doc, req.feedback, omitEmpty)))
  \/ \E req \in InFlight, e \in ApiErrors : SubmitFieldFeedbackRejected(req, e)

SpecRemoval == InitFeedback /\ [][NextRemoval]_vars

(***************************************************************************)
(* The getters over lists as fetchInvoices caches them: up to MaxViewLen   *)
(* documents with distinct ids, any mix of status and upload date          *)
(***************************************************************************)
MaxViewLen == 3

ViewIds == <<"v1", "v2", "v3", "v4", "v5", "v6">>

\* status and upload date of a listed document
ViewShapes == {<<"processing", "2024-01-01">>, <<"processed", "2024-03-01">>,
               <<"failed", "2024-02-01">>, <<"processing", "2024-03-01">>}

\* the n-th document of a list
ViewInvoice(n, shape) ==
  LET base == [id |-> ViewIds[n], userId |-> "u1", status |-> shape[1],
               uploadedAt |-> shape[2]]
  IN CASE shape[1] = "processing" -> base
       [] shape[1] = "processed" -> ("processedAt" :> "2024-03-02") @@ base
       [] shape[1] = "failed" ->
            ("processedAt" :> "2024-03-02") @@ ("errorMessage" :> "ocr failed") @@ base

ViewLists ==
  UNION {{[i \in 1..n |-> ViewInvoice(i, shapes[i])] : shapes \in [1..n -> ViewShapes]} :
         n \in 0..MaxViewLen}

InitViews ==
  /\ invoices \in ViewLists
  /\ total = Len(invoices)
  /\ currentInvoice = Null
  /\ loading = FALSE
  /\ error = Null
  /\ pending = EmptyBag
  /\ calls = 0
  /\ ev = Event("init", "init", Null, "none", Null, Null)
  /\ admin = AdminInit
  /\ auth = AuthInit

NextViews ==
  \/ ReadSortedInvoices
  \/ ReadTotalInvoices
  \/ ReadProcessingInvoices
  \/ ReadProcessedInvoices
  \/ ReadFailedInvoices

SpecViews == InitViews /\ [][NextViews]_vars

(***************************************************************************)
(* The admin store: platform statistics                                    *)
(***************************************************************************)
\* what GET /api/admin/statistics serves
StatisticsResponses ==
  {[totalUsers |-> 3, totalInvoices |-> 10, totalAmount |-> 100, successRate |-> 90,
    processingInvoices |-> 7, failedInvoices |-> 1],
   [totalUsers |-> 4, totalInvoices |-> 12, totalAmount |-> 150, successRate |-> 80,
    activeUsers |-> 2]}

\* fetchStatistics up to the await of adminService.getStatistics
FetchStatisticsCall ==
  /\ admin' = [admin EXCEPT !.loading = TRUE, !.error = Null]
  /\ LET req == [call |-> "getStatistics", op |-> "fetchStatistics"]
     IN /\ pending' = pending (+) One(req)
        /\ ev' = Event("fetchStatistics", "call", Some(req), "none", Null, Null)
  /\ calls' = calls + 1
  /\ UNCHANGED <<invoices, currentInvoice, loading, error, total, auth>>

\* variant: the response is merged into the previous snapshot field by field
FetchStatisticsResolvedMerging(req, stats) ==
  /\ req \in InFlight
  /\ req.call = "getStatistics"
  /\ admin' = [admin EXCEPT
                 !.statistics = IF IsNull(admin.statistics) THEN Some(stats)
                                ELSE Some(stats @@ Unwrap(admin.statistics)),
                 !.loading = FALSE]
  /\ pending' = pending (-) One(req)
  /\ ev' = Event("fetchStatistics", "resolved", Some(req), "ok", Some(stats), Null)
  /\ UNCHANGED <<invoices, currentInvoice, loading, error, total, calls, auth>>

\* the gateway answered: `statistics.value = stats`, then the finally block
FetchStatisticsResolved(req, stats) ==
  /\ req \in InFlight
  /\ req.call = "getStatistics"
  /\ admin' = [admin EXCEPT !.statistics = Some(stats), !.loading = FALSE]
  /\ pending' = pending (-) One(req)
  /\ ev' = Event("fetchStatistics", "resolved", Some(req), "ok", Some(stats), Null)
  /\ UNCHANGED <<invoices, currentInvoice, loading, error, total, calls, auth>>

\* the call failed: catch and finally of fetchStatistics
FetchStatisticsRejected(req, err) ==
  /\ req \in InFlight
  /\ req.call = "getStatistics"
  /\ admin' = [admin EXCEPT !.error = Some(MessageOr(err, "Failed to fetch statistics")),
                            !.loading = FALSE]
  /\ pending' = pending (-) One(req)
  /\ ev' = Event("fetchStatistics", "rejected", Some(req), "failed", Some(err), Some(err))
  /\ UNCHANGED <<invoices, currentInvoice, loading, error, total, calls, auth>>

\* clearError of the admin store
AdminClearError ==
  /\ admin' = [admin EXCEPT !.error = Null]
  /\ ev' = Event("admin.clearError", "sync", Null, "none", Null, Null)
  /\ UNCHANGED <<invoices, currentInvoice, loading, error, total, pending, calls, auth>>

\* users of the platform as GET /api/admin/users serves them
AdminUsers ==
  <<[uid |-> "u1", email |-> "ana@acme.pe", role |-> "admin", isActive |-> TRUE],
    [uid |-> "u2", email |-> "luis@acme.pe", role |-> "user", isActive |-> TRUE]>>

UsersResponses == {[users |-> AdminUsers, total |-> 2]}

\* what PATCH /api/admin/users/:userId serves
UpdatedUsers ==
  {[uid |-> "u2", email |-> "luis@acme.pe", role |-> "user", isActive |-> FALSE]}

UserUpdates == {[isActive |-> FALSE]}

\* what GET /api/admin/invoices serves
AllInvoicesResponses == {[invoices |-> <<A1, B1>>, total |-> 2]}

\* the text after `err.message ||` in fetchUsers, updateUser, fetchAllInvoices
AdminFallback(op) ==
  CASE op = "fetchUsers" -> "Failed to fetch users"
    [] op = "updateUser" -> "Failed to update user"
    [] op = "fetchAllInvoices" -> "Failed to fetch invoices"

\* fetchUsers up to the await of adminService.getUsers
FetchUsersCall ==
  /\ admin' = [admin EXCEPT !.loading = TRUE, !.error = Null]
  /\ LET req == [call |-> "getUsers", op |-> "fetchUsers", page |-> 1, limit |-> 50]
     IN /\ pending' = pending (+) One(req)
        /\ ev' = Event("fetchUsers", "call", Some(req), "none", Null, Null)
  /\ calls' = calls + 1
  /\ UNCHANGED <<invoices, currentInvoice, loading, error, total, auth>>

\* `users.value = response.users; totalUsers.value = response.total`
FetchUsersResolved(req, response) ==
  /\ req \in InFlight
  /\ req.call = "getUsers"
  /\ admin' = [admin EXCEPT !.users = response.users, !.totalUsers = response.total,
                            !.loading = FALSE]
  /\ pending' = pending (-) One(req)
  /\ ev' = Event("fetchUsers", "resolved", Some(req), "ok", Some(response), Null)
  /\ UNCHANGED <<invoices, currentInvoice, loading, error, total, calls, auth>>

\* updateUser up to the await of adminService.updateUser
UpdateUserCall(userId, updates) ==
  /\ admin' = [admin EXCEPT !.loading = TRUE, !.error = Null]
  /\ LET req == [call |-> "updateUser", op |-> "updateUser", userId |-> userId,
                 updates |-> updates]
     IN /\ pending' = pending (+) One(req)
        /\ ev' = Event("updateUser", "call", Some(req), "none", Null, Null)
  /\ calls' = calls + 1
  /\ UNCHANGED <<invoices, currentInvoice, loading, error, total, auth>>

\* the first user with the requested uid is replaced by the returned one
UpdateUserResolved(req, updatedUser) ==
  /\ req \in InFlight
  /\ req.call = "updateUser"
  /\ LET found == {i \in 1..Len(admin.users) : admin.users[i].uid = req.userId}
         index == IF found = {} THEN 0 ELSE CHOOSE i \in found : \A j \in found : i <= j
     IN admin' = [admin EXCEPT
                    !.users = IF index = 0 THEN admin.users
                              ELSE [admin.users EXCEPT ![index] = updatedUser],
                    !.loading = FALSE]
  /\ pending' = pending (-) One(req)
  /\ ev' = Event("updateUser", "resolved", Some(req), "ok", Some(updatedUser),
                 Some(updatedUser))
  /\ UNCHANGED <<invoices, currentInvoice, loading, error, total, calls, auth>>

\* fetchAllInvoices up to the await of adminService.getAllInvoices
FetchAllInvoicesCall(filters) ==
  /\ admin' = [admin EXCEPT !.loading = TRUE, !.error = Null]
  /\ LET req == [call |-> "getAllInvoices", op |-> "fetchAllInvoices", filters |-> filters]
     IN /\ pending' = pending (+) One(req)
        /\ ev' = Event("fetchAllInvoices", "call", Some(req), "none", Null, Null)
  /\ calls' = calls + 1
  /\ UNCHANGED <<invoices, currentInvoice, loading, error, total, auth>>

\* `allInvoices.value = response.invoices; totalInvoices.value = response.total`
FetchAllInvoicesResolved(req, response) ==
  /\ req \in InFlight
  /\ req.call = "getAllInvoices"
  /\ admin' = [admin EXCEPT !.allInvoices = response.invoices,
                            !.totalInvoices = response.total, !.loading = FALSE]
  /\ pending' = pending (-) One(req)
  /\ ev' = Event("fetchAllInvoices", "resolved", Some(req), "ok", Some(response), Null)
  /\ UNCHANGED <<invoices, currentInvoice, loading, error, total, calls, auth>>

\* catch and finally of fetchUsers, updateUser and fetchAllInvoices
AdminRejected(req, err) ==
  /\ req \in InFlight
  /\ req.op \in {"fetchUsers", "updateUser", "fetchAllInvoices"}
  /\ admin' = [admin EXCEPT !.error = Some(MessageOr(err, AdminFallback(req.op))),
                            !.loading = FALSE]
  /\ pending' = pending (-) One(req)
  /\ ev' = Event(req.op, "rejected", Some(req), "failed", Some(err), Some(err))
  /\ UNCHANGED <<invoices, currentInvoice, loading, error, total, calls, auth>>

\* a list of five documents, two of them processing
FiveInvoices ==
  <<ViewInvoice(1, <<"processing", "2024-01-01">>),
    ViewInvoice(2, <<"processed", "2024-03-01">>),
    ViewInvoice(3, <<"failed", "2024-02-01">>),
    ViewInvoice(4, <<"processing", "2024-03-01">>),
    ViewInvoice(5, <<"processed", "2024-03-01">>)>>

\* answers of the list call while the statistics are fetched
StatisticsListAnswers ==
  {[invoices |-> FiveInvoices, total |-> 5], [invoices |-> <<A1, B1>>, total |-> 3]}

\* both stores from their construction: the admin fetches statistics and
\* the invoice list in any order
NextStatistics ==
  \/ CanCall /\ FetchStatisticsCall
  \/ \E req \in InFlight, stats \in StatisticsResponses : FetchStatisticsResolved(req, stats)
  \/ \E req \in InFlight, err \in ApiErrors : FetchStatisticsRejected(req, err)
  \/ AdminClearError
  \/ CanCall /\ FetchUsersCall
  \/ \E req \in InFlight, response \in UsersResponses : FetchUsersResolved(req, response)
  \/ CanCall /\ \E userId \in {"u2"}, updates \in UserUpdates : UpdateUserCall(userId, updates)
  \/ \E req \in InFlight, updatedUser \in UpdatedUsers : UpdateUserResolved(req, updatedUser)
  \/ CanCall /\ \E filters \in {Null} : FetchAllInvoicesCall(filters)
  \/ \E req \in InFlight, response \in AllInvoicesResponses :
       FetchAllInvoicesResolved(req, response)
  \/ \E req \in InFlight, err \in ApiErrors : AdminRejected(req, err)
  \/ CanCall /\ \E query \in InvoiceQueries : FetchInvoicesCall(query)
  \/ \E req \in InFlight, response \in StatisticsListAnswers :
       FetchInvoicesResolved(req, response)
  \/ \E req \in InFlight, err \in ApiErrors : FetchInvoicesRejected(req, err)

SpecStatistics == Init /\ [][NextStatistics]_vars

(***************************************************************************)
(* services/api: the response interceptor's error handler                  *)
(***************************************************************************)
\* a gateway call failed with the given AxiosError: the handler rejects
ResponseRejected(axiosError) ==
  /\ ev' = Event("api.interceptors.response", "rejected", Null, "failed", Some(axiosError),
                 Some(Rejection(axiosError)))
  /\ UNCHANGED <<invoices, currentInvoice, loading, error, total, pending, calls>>
  /\ UNCHANGED otherStores

NextInterceptor == \E axiosError \in AxiosErrors : ResponseRejected(axiosError)

SpecInterceptor == Init /\ [][NextInterceptor]_vars

(***************************************************************************)
(* The auth store (useAuthStore)                                           *)
(***************************************************************************)
MaxAuthCalls == 2

\* profiles GET profile serves; the last one lacks the optional flags
Users ==
  {[uid |-> "u1", email |-> "ana@acme.pe", emailVerified |-> TRUE, role |-> "admin",
    profileCompleted |-> TRUE],
   [uid |-> "u2", email |-> "luis@acme.pe", emailVerified |-> FALSE, role |-> "user",
    profileCompleted |-> FALSE],
   [uid |-> "u3", email |-> "eva@acme.pe", emailVerified |-> TRUE, role |-> "user",
    profileCompleted |-> TRUE],
   [uid |-> "u4", email |-> "new@acme.pe", role |-> "user"]}

\* currentUser.value?.role === 'admin'
IsAdmin ==
  IF IsNull(auth.currentUser) THEN FALSE
  ELSE IF ~Has(Unwrap(auth.currentUser), "role") THEN FALSE
  ELSE Unwrap(auth.currentUser).role = "admin"

\* variant: a missing user counts as verified
IsVerifiedByDefault ==
  IF IsNull(auth.currentUser) THEN TRUE
  ELSE IF ~Has(Unwrap(auth.currentUser), "emailVerified") THEN TRUE
  ELSE Unwrap(auth.currentUser).emailVerified

\* currentUser.value?.emailVerified || false
IsVerified ==
  IF IsNull(auth.currentUser) THEN FALSE
  ELSE IF ~Has(Unwrap(auth.currentUser), "emailVerified") THEN FALSE
  ELSE Unwrap(auth.currentUser).emailVerified

\* currentUser.value?.profileCompleted || false
ProfileCompleted ==
  IF IsNull(auth.currentUser) THEN FALSE
  ELSE IF ~Has(Unwrap(auth.currentUser), "profileCompleted") THEN FALSE
  ELSE Unwrap(auth.currentUser).profileCompleted

\* the actions that only toggle loading and error around one awaited call
\* and return nothing
PlainAuthOps == {"verifyEmail", "resendVerification"}
AuthOps ==
  PlainAuthOps \cup {"register", "login", "logout", "fetchProfile", "updateProfile"}

\* the call each action awaits
AwaitedBy(op) ==
  CASE op = "register" -> "authService.register"
    [] op = "login" -> "signInWithEmailAndPassword"
    [] op = "logout" -> "signOut"
    [] op = "verifyEmail" -> "sendEmailVerification"
    [] op = "resendVerification" -> "authService.resendVerification"
    [] op = "fetchProfile" -> "getProfile"
    [] op = "updateProfile" -> "updateProfile"

\* the text after `err.message ||`
AuthFallback(op) ==
  CASE op = "register" -> "Registration failed"
    [] op = "login" -> "Login failed"
    [] op = "logout" -> "Logout failed"
    [] op = "verifyEmail" -> "Failed to send verification email"
    [] op = "resendVerification" -> "Failed to resend verification email"
    [] op = "fetchProfile" -> "Failed to fetch profile"
    [] op = "updateProfile" -> "Failed to update profile"

\* the auth actions leave the other stores alone
AuthFrame == UNCHANGED <<invoices, currentInvoice, loading, error, total, admin>>

\* an action of the auth store that takes no credentials, up to its await
AuthCall(op) ==
  /\ auth' = [auth EXCEPT !.loading = TRUE, !.error = Null]
  /\ LET req == [call |-> AwaitedBy(op), op |-> op, caller |-> "component"]
     IN /\ pending' = pending (+) One(req)
        /\ ev' = Event(op, "call", Some(req), "none", Null, Null)
  /\ calls' = calls + 1
  /\ AuthFrame

\* credentials a component passes to register and login
Emails == {"ana@acme.pe", "luis@acme.pe"}
Passwords == {"secret"}

\* what POST /api/auth/register serves
RegisterResponses == {[uid |-> "u1", email |-> "ana@acme.pe", message |-> "created"]}

\* what signInWithEmailAndPassword resolves with
UserCredentials == {[user |-> [uid |-> "u1", email |-> "ana@acme.pe"]]}

\* register(email, password) and login(email, password) up to their await
CredentialsCall(op, email, password) ==
  /\ op \in {"register", "login"}
  /\ auth' = [auth EXCEPT !.loading = TRUE, !.error = Null]
  /\ LET req == [call |-> AwaitedBy(op), op |-> op, caller |-> "component",
                 email |-> email, password |-> password]
     IN /\ pending' = pending (+) One(req)
        /\ ev' = Event(op, "call", Some(req), "none", Null, Null)
  /\ calls' = calls + 1
  /\ AuthFrame

\* register: the backend created the user, `return { email }`
RegisterResolved(req, response) ==
  /\ req \in InFlight
  /\ req.op = "register"
  /\ auth' = [auth EXCEPT !.loading = FALSE]
  /\ pending' = pending (-) One(req)
  /\ ev' = Event("register", "resolved", Some(req), "ok", Some(response),
                 Some([email |-> req.email]))
  /\ UNCHANGED calls
  /\ AuthFrame

\* login: `return userCredential.user`
LoginResolved(req, userCredential) ==
  /\ req \in InFlight
  /\ req.op = "login"
  /\ auth' = [auth EXCEPT !.loading = FALSE]
  /\ pending' = pending (-) One(req)
  /\ ev' = Event("login", "resolved", Some(req), "ok", Some(userCredential),
                 Some(userCredential.user))
  /\ UNCHANGED calls
  /\ AuthFrame

\* verifyEmail when firebase has no current user: nothing is awaited
VerifyEmailWithoutUser ==
  /\ auth' = [auth EXCEPT !.loading = FALSE, !.error = Null]
  /\ ev' = Event("verifyEmail", "resolved", Null, "none", Null, Null)
  /\ UNCHANGED <<pending, calls>>
  /\ AuthFrame

\* verifyEmail, resendVerification: the awaited call succeeded; nothing is
\* returned
PlainAuthResolved(req) ==
  /\ req \in InFlight
  /\ req.op \in PlainAuthOps
  /\ auth' = [auth EXCEPT !.loading = FALSE]
  /\ pending' = pending (-) One(req)
  /\ ev' = Event(req.op, "resolved", Some(req), "ok", Null, Null)
  /\ UNCHANGED calls
  /\ AuthFrame

\* variant: a profile that arrives after the session ended is dropped
FetchProfileResolvedIfAuthenticated(req, profile) ==
  /\ req \in InFlight
  /\ req.call = "getProfile"
  /\ auth' = [auth EXCEPT
                !.currentUser = IF auth.isAuthenticated THEN Some(profile) ELSE Null,
                !.loading = FALSE]
  /\ pending' = pending (-) One(req)
  /\ ev' = Event("fetchProfile", "resolved", Some(req), "ok", Some(profile), Null)
  /\ UNCHANGED calls
  /\ AuthFrame

\* fetchProfile: `currentUser.value = profile`, then the finally block
FetchProfileResolved(req, profile) ==
  /\ req \in InFlight
  /\ req.call = "getProfile"
  /\ auth' = [auth EXCEPT !.currentUser = Some(profile), !.loading = FALSE]
  /\ pending' = pending (-) One(req)
  /\ ev' = Event("fetchProfile", "resolved", Some(req), "ok", Some(profile), Null)
  /\ UNCHANGED calls
  /\ AuthFrame

\* updateProfile: `currentUser.value = updatedUser`, then the finally block
UpdateProfileResolved(req, updatedUser) ==
  /\ req \in InFlight
  /\ req.call = "updateProfile"
  /\ auth' = [auth EXCEPT !.currentUser = Some(updatedUser), !.loading = FALSE]
  /\ pending' = pending (-) One(req)
  /\ ev' = Event("updateProfile", "resolved", Some(req), "ok", Some(updatedUser), Null)
  /\ UNCHANGED calls
  /\ AuthFrame

\* logout: signOut succeeded
LogoutResolved(req) ==
  /\ req \in InFlight
  /\ req.call = "signOut"
  /\ auth' = [auth EXCEPT !.currentUser = Null, !.isAuthenticated = FALSE,
                          !.loading = FALSE]
  /\ pending' = pending (-) One(req)
  /\ ev' = Event("logout", "resolved", Some(req), "ok", Null, Null)
  /\ UNCHANGED calls
  /\ AuthFrame

\* the awaited call of any auth action failed: its catch and finally (the
\* listener swallows the rejection of the fetchProfile it started)
AuthRejected(req, err) ==
  /\ req \in InFlight
  /\ req.op \in AuthOps
  /\ Has(req, "caller")
  /\ auth' = [auth EXCEPT !.error = Some(MessageOr(err, AuthFallback(req.op))),
                          !.loading = FALSE]
  /\ pending' = pending (-) One(req)
  /\ ev' = Event(req.op, "rejected", Some(req), "failed", Some(err), Some(err))
  /\ UNCHANGED calls
  /\ AuthFrame

\* onAuthStateChanged fires with a user: the flag is set and fetchProfile
\* runs up to its await
AuthStateChangedSignedIn ==
  /\ auth' = [auth EXCEPT !.isAuthenticated = TRUE, !.loading = TRUE, !.error = Null]
  /\ LET req == [call |-> "getProfile", op |-> "fetchProfile",
                 caller |-> "onAuthStateChanged"]
     IN /\ pending' = pending (+) One(req)
        /\ ev' = Event("onAuthStateChanged", "call", Some(req), "none", Null, Null)
  /\ calls' = calls + 1
  /\ AuthFrame

\* onAuthStateChanged fires with null
AuthStateChangedSignedOut ==
  /\ auth' = [auth EXCEPT !.isAuthenticated = FALSE, !.currentUser = Null]
  /\ ev' = Event("onAuthStateChanged", "sync", Null, "none", Null, Null)
  /\ UNCHANGED <<pending, calls>>
  /\ AuthFrame

\* the auth store from its construction: components start at most
\* MaxAuthCalls calls, firebase reports session changes at any time
NextAuth ==
  \/ calls < MaxAuthCalls /\ \E op \in AuthOps \ {"register", "login"} : AuthCall(op)
  \/ calls < MaxAuthCalls /\ \E op \in {"register", "login"}, email \in Emails,
                                password \in Passwords : CredentialsCall(op, email, password)
  \/ \E req \in InFlight, response \in RegisterResponses : RegisterResolved(req, response)
  \/ \E req \in InFlight, userCredential \in UserCredentials :
       LoginResolved(req, userCredential)
  \/ VerifyEmailWithoutUser
  \/ \E req \in InFlight : PlainAuthResolved(req)
  \/ \E req \in InFlight, profile \in Users : FetchProfileResolved(req, profile)
  \/ \E req \in InFlight, updatedUser \in Users : UpdateProfileResolved(req, updatedUser)
  \/ \E req \in InFlight : LogoutResolved(req)
  \/ \E req \in InFlight, err \in ApiErrors : AuthRejected(req, err)
  \/ calls < MaxAuthCalls /\ AuthStateChangedSignedIn
  \/ AuthStateChangedSignedOut

SpecAuth == Init /\ [][NextAuth]_vars

(***************************************************************************)
(* The router: its routes and the global navigation guard                  *)
(***************************************************************************)
\* the named routes as the guard sees them (InvoiceDetail with its
\* parameter filled in)
Routes ==
  {[name |-> "Login", fullPath |-> "/login", meta |-> [requiresAuth |-> FALSE]],
   [name |-> "Register", fullPath |-> "/register", meta |-> [requiresAuth |-> FALSE]],
   [name |-> "Profile", fullPath |-> "/profile", meta |-> [requiresAuth |-> TRUE]],
   [name |-> "Dashboard", fullPath |-> "/dashboard", meta |-> [requiresAuth |-> TRUE]],
   [name |-> "Invoices", fullPath |-> "/invoices", meta |-> [requiresAuth |-> TRUE]],
   [name |-> "InvoiceUpload", fullPath |-> "/invoices/upload",
    meta |-> [requiresAuth |-> TRUE, requiresVerification |-> TRUE,
              requiresProfile |-> TRUE]],
   [name |-> "InvoiceDetail", fullPath |-> "/invoices/a", meta |-> [requiresAuth |-> TRUE]],
   [name |-> "Admin", fullPath |-> "/admin",
    meta |-> [requiresAuth |-> TRUE, requiresAdmin |-> TRUE]]}

\* to.meta.<key>, undefined read as false
Meta(to, key) == IF Has(to.meta, key) THEN to.meta[key] ELSE FALSE

\* the arguments next is called with
Proceed == Null
RedirectToLogin(to) == Some([name |-> "Login", query |-> [redirect |-> to.fullPath]])
RedirectTo(name) == Some([name |-> name])

\* the guard waits 500 ms before it decides
GuardWaits(to) == ~auth.isAuthenticated /\ Meta(to, "requiresAuth")

\* variant: the first branch does not return after next
BeforeEachFallingThrough(to) ==
  (IF Meta(to, "requiresAuth") /\ ~auth.isAuthenticated
   THEN <<RedirectToLogin(to)>> ELSE <<>>) \o
  (IF (to.name = "Login" \/ to.name = "Register") /\ auth.isAuthenticated
   THEN <<RedirectTo("Dashboard")>>
   ELSE IF Meta(to, "requiresAdmin") /\ ~IsAdmin
   THEN <<RedirectTo("Dashboard")>>
   ELSE IF Meta(to, "requiresVerification") /\ ~IsVerified
   THEN <<RedirectTo("Profile")>>
   ELSE IF Meta(to, "requiresProfile") /\ ~ProfileCompleted
   THEN <<RedirectTo("Profile")>>
   ELSE <<Proceed>>)

\* the checks of the guard from the store as it is now: the calls of next
\* it makes, in order
BeforeEach(to) ==
  IF Meta(to, "requiresAuth") /\ ~auth.isAuthenticated
  THEN <<RedirectToLogin(to)>>
  ELSE IF (to.name = "Login" \/ to.name = "Register") /\ auth.isAuthenticated
  THEN <<RedirectTo("Dashboard")>>
  ELSE IF Meta(to, "requiresAdmin") /\ ~IsAdmin
  THEN <<RedirectTo("Dashboard")>>
  ELSE IF Meta(to, "requiresVerification") /\ ~IsVerified
  THEN <<RedirectTo("Profile")>>
  ELSE IF Meta(to, "requiresProfile") /\ ~ProfileCompleted
  THEN <<RedirectTo("Profile")>>
  ELSE <<Proceed>>

\* a navigation whose guard starts the 500 ms timer
BeforeEachWaits(to) ==
  /\ GuardWaits(to)
  /\ LET req == [call |-> "setTimeout", op |-> "beforeEach", to |-> to]
     IN /\ pending' = pending (+) One(req)
        /\ ev' = Event("beforeEach", "call", Some(req), "none", Null, Null)
  /\ calls' = calls + 1
  /\ UNCHANGED auth
  /\ AuthFrame

\* the timer fired: the guard decides from the store as it is now
BeforeEachAfterWait(req) ==
  /\ req \in InFlight
  /\ req.call = "setTimeout"
  /\ pending' = pending (-) One(req)
  /\ ev' = Event("beforeEach", "resolved", Some(req), "none", Some(req.to),
                 Some(BeforeEach(req.to)))
  /\ UNCHANGED <<auth, calls>>
  /\ AuthFrame

\* a navigation whose guard decides without waiting
BeforeEachAtOnce(to) ==
  /\ ~GuardWaits(to)
  /\ ev' = Event("beforeEach", "resolved", Null, "none", Some(to), Some(BeforeEach(to)))
  /\ UNCHANGED <<auth, pending, calls>>
  /\ AuthFrame

\* navigations while the session and the profile change
NextRouter ==
  \/ calls < MaxAuthCalls /\ \E to \in Routes : BeforeEachWaits(to)
  \/ \E req \in InFlight : BeforeEachAfterWait(req)
  \/ \E to \in Routes : BeforeEachAtOnce(to)
  \/ calls < MaxAuthCalls /\ AuthStateChangedSignedIn
  \/ AuthStateChangedSignedOut
  \/ \E req \in InFlight, profile \in Users : FetchProfileResolved(req, profile)
  \/ \E req \in InFlight, err \in ApiErrors : AuthRejected(req, err)

SpecRouter == Init /\ [][NextRouter]_vars

(***************************************************************************)
(* Reading the last step.                                                  *)
(***************************************************************************)
\* the gateway call event e is about ("none" for a step without one)
CallOf(e) == IF IsNull(e.req) THEN "none" ELSE Unwrap(e.req).call

\* e is the step in which the gateway failed the given call
Failed(e, call) == CallOf(e) = call /\ e.gateway = "failed"

\* e is the step in which the gateway answered the given call
Answered(e, call) == CallOf(e) = call /\ e.gateway = "ok"

\* the error slot holds a non-empty message
HasMessage(slot) == ~IsNull(slot) /\ Unwrap(slot) # ""

(***************************************************************************)
(* C1  Failed fetch preserves state: the step in which the list call of a  *)
(* fetchInvoices fails leaves the cached list and the total exactly as     *)
(* they were, puts a non-empty message in the error slot, and the call     *)
(* rejects to its caller with the gateway's error.                         *)
(***************************************************************************)
FailedFetchPreservesState ==
  [][Failed(ev', "getInvoices") =>
       /\ invoices' = invoices
       /\ total' = total
       /\ HasMessage(error')
       /\ ev'.phase = "rejected"
       /\ ev'.value = ev'.answer
       /\ ~IsNull(ev'.value)]_vars

\* a fetch failed on a populated list
FailedFetchOnPopulatedList ==
  /\ Failed(ev, "getInvoices")
  /\ ev.op = "fetchInvoices"
  /\ Len(invoices) = 2
  /\ total = 3
  /\ HasMessage(error)

(***************************************************************************)
(* C2  A successful fetchInvoices replaces the whole cached list and the   *)
(* total with the gateway response and does not touch the current invoice. *)
(***************************************************************************)
FetchReplacesListAndTotal ==
  [][Answered(ev', "getInvoices") =>
       /\ invoices' = Unwrap(ev'.answer).invoices
       /\ total' = Unwrap(ev'.answer).total
       /\ currentInvoice' = currentInvoice]_vars

\* a fetch answered with a shorter list while a current invoice is loaded:
\* the entries of the previous list are gone
FetchReplacedPopulatedList ==
  /\ Answered(ev, "getInvoices")
  /\ ev.op = "fetchInvoices"
  /\ invoices = <<A1>>
  /\ total = 1
  /\ ~IsNull(currentInvoice)
  /\ calls = 3

(***************************************************************************)
(* Reading a submitFieldFeedback step.                                     *)
(***************************************************************************)
\* e is the step in which a submitFieldFeedback call resolved
FeedbackSucceeded(e) == e.op = "submitFieldFeedback" /\ e.phase = "resolved"

\* the id the call was made for, and the invoice the gateway returned
AnnotatedId(e) == Unwrap(e.req).invoiceId
Returned(e) == Unwrap(Unwrap(e.answer))

\* positions of the list entries with the given id
EntriesOf(list, invoiceId) ==
  {i \in 1..Len(list) : Has(list[i], "id") /\ list[i].id = invoiceId}

\* the feedback map of an invoice, null when the invoice has none
FeedbackMapOf(inv) ==
  IF Has(inv, "fieldFeedback") THEN Some(inv.fieldFeedback) ELSE Null

\* new is the shallow union of local and returned, with the feedback map
\* of returned (the empty map when returned has none)
IsShallowUnion(new, local, returned) ==
  /\ DOMAIN new = DOMAIN local \cup DOMAIN returned \cup {"fieldFeedback"}
  /\ \A k \in DOMAIN returned \ {"fieldFeedback"} : new[k] = returned[k]
  /\ \A k \in DOMAIN local \ (DOMAIN returned \cup {"fieldFeedback"}) : new[k] = local[k]
  /\ new.fieldFeedback =
       (IF Has(returned, "fieldFeedback") THEN returned.fieldFeedback ELSE EmptyObject)

(***************************************************************************)
(* C3  List/current consistency: right after a submitFieldFeedback for id  *)
(* resolved, if the current invoice has that id then every list entry with *)
(* that id has the same fieldFeedback map as the current invoice.          *)
(***************************************************************************)
ListCurrentConsistency ==
  (FeedbackSucceeded(ev) /\ CurrentHas(currentInvoice, AnnotatedId(ev))) =>
    \A i \in EntriesOf(invoices, AnnotatedId(ev)) :
      FeedbackMapOf(invoices[i]) = FeedbackMapOf(Unwrap(currentInvoice))

\* the same, for lists whose ids are unique
ListCurrentConsistencyUniqueIds ==
  (FeedbackSucceeded(ev) /\ CurrentHas(currentInvoice, AnnotatedId(ev))
     /\ UniqueIds(invoices)) =>
    \A i \in EntriesOf(invoices, AnnotatedId(ev)) :
      FeedbackMapOf(invoices[i]) = FeedbackMapOf(Unwrap(currentInvoice))

(***************************************************************************)
(* C4  When a submitFieldFeedback for id resolves and the current invoice  *)
(* has that id, the slot becomes the shallow union of the local copy and   *)
(* the returned copy: returned fields win, local-only fields stay, and     *)
(* fieldFeedback is exactly the returned map (empty when absent).          *)
(***************************************************************************)
CurrentBecomesShallowUnion ==
  [][(FeedbackSucceeded(ev') /\ CurrentHas(currentInvoice, AnnotatedId(ev'))) =>
       /\ ~IsNull(currentInvoice')
       /\ IsShallowUnion(Unwrap(currentInvoice'), Unwrap(currentInvoice), Returned(ev'))]_vars

\* the current invoice A1 was merged with the returned A2: vendorName is
\* kept from the local copy, totalAmount is the returned one, and the
\* local vote on vendorName is dropped
CurrentMergedDroppingLocalVote ==
  /\ FeedbackSucceeded(ev)
  /\ AnnotatedId(ev) = "a"
  /\ Returned(ev) = A2
  /\ ~IsNull(currentInvoice)
  /\ Has(Unwrap(currentInvoice), "vendorName")
  /\ Unwrap(currentInvoice).vendorName = "acme"
  /\ Unwrap(currentInvoice).totalAmount = 12
  /\ Unwrap(currentInvoice).fieldFeedback = A2.fieldFeedback

(***************************************************************************)
(* C5  When a submitFieldFeedback for id resolves, every list entry with   *)
(* that id receives the same replacement (shallow union with the returned  *)
(* copy), whether or not the current invoice has that id.                  *)
(***************************************************************************)
ListEntryBecomesShallowUnion ==
  [][FeedbackSucceeded(ev') =>
       /\ Len(invoices') = Len(invoices)
       /\ \A i \in EntriesOf(invoices, AnnotatedId(ev')) :
            IsShallowUnion(invoices'[i], invoices[i], Returned(ev'))]_vars

\* the same, for lists whose ids are unique
ListEntryBecomesShallowUnionUniqueIds ==
  [][(FeedbackSucceeded(ev') /\ UniqueIds(invoices)) =>
       /\ Len(invoices') = Len(invoices)
       /\ \A i \in EntriesOf(invoices, AnnotatedId(ev')) :
            IsShallowUnion(invoices'[i], invoices[i], Returned(ev'))]_vars

(***************************************************************************)
(* C6  A resolved submitFieldFeedback for id leaves every list entry with  *)
(* another id unchanged and in place, keeps the length of the list and the *)
(* total, and leaves the current slot unchanged when it is empty or holds  *)
(* another id.                                                             *)
(***************************************************************************)
FeedbackKeepsUnrelatedData ==
  [][FeedbackSucceeded(ev') =>
       /\ Len(invoices') = Len(invoices)
       /\ \A i \in 1..Len(invoices) :
            i \notin EntriesOf(invoices, AnnotatedId(ev')) => invoices'[i] = invoices[i]
       /\ total' = total
       /\ ~CurrentHas(currentInvoice, AnnotatedId(ev')) =>
            currentInvoice' = currentInvoice]_vars

\* feedback for "a" changed the first entry of a two-entry list while the
\* second entry and the current invoice, both of id "b", stayed
FeedbackChangedOneEntryOnly ==
  /\ FeedbackSucceeded(ev)
  /\ AnnotatedId(ev) = "a"
  /\ Returned(ev) = A2
  /\ Len(invoices) = 2
  /\ invoices[1].id = "a" /\ invoices[1].totalAmount = 12
  /\ Has(invoices[1], "vendorName")
  /\ invoices[2] = B2
  /\ currentInvoice = Some(B1)

(***************************************************************************)
(* C7  When a submitFieldFeedback for id resolves and neither slot holds   *)
(* that id, the list, the total and the current invoice are unchanged and  *)
(* the caller receives the returned invoice.                               *)
(***************************************************************************)
FeedbackForUncachedIdIsNoOp ==
  [][(FeedbackSucceeded(ev') /\ ~CurrentHas(currentInvoice, AnnotatedId(ev'))
        /\ EntriesOf(invoices, AnnotatedId(ev')) = {}) =>
       /\ invoices' = invoices
       /\ total' = total
       /\ currentInvoice' = currentInvoice
       /\ ev'.value = Some([success |-> TRUE, invoice |-> Returned(ev')])]_vars

\* feedback for "b" resolved while the list and the current slot hold "a"
FeedbackResolvedForUncachedId ==
  /\ FeedbackSucceeded(ev)
  /\ AnnotatedId(ev) = "b"
  /\ Returned(ev) = B2
  /\ invoices = <<A1>>
  /\ currentInvoice = Some(A3)
  /\ ev.value = Some([success |-> TRUE, invoice |-> B2])

(***************************************************************************)
(* C8  Response validation: an answered feedback call whose body is        *)
(* missing, has no id, has an empty id, or has an id other than the        *)
(* annotated one rejects, sets the error slot and changes neither slot.    *)
(***************************************************************************)
\* the body is not a document of the annotated invoice
NotTheAnnotatedInvoice(body, invoiceId) ==
  IF IsNull(body) THEN TRUE
  ELSE IF ~Has(Unwrap(body), "id") THEN TRUE
  ELSE Unwrap(body).id = "" \/ Unwrap(body).id # invoiceId

FeedbackResponseValidated ==
  [][(Answered(ev', "submitFieldFeedback")
        /\ NotTheAnnotatedInvoice(Unwrap(ev'.answer), AnnotatedId(ev'))) =>
       /\ ev'.phase = "rejected"
       /\ HasMessage(error')
       /\ currentInvoice' = currentInvoice
       /\ invoices' = invoices]_vars

\* the part of C8 the code implements: a missing body, a missing id and an
\* empty id are rejected without touching the slots
FeedbackResponseWithoutIdRejected ==
  [][(Answered(ev', "submitFieldFeedback") /\ InvalidResponse(Unwrap(ev'.answer))) =>
       /\ ev'.phase = "rejected"
       /\ HasMessage(error')
       /\ currentInvoice' = currentInvoice
       /\ invoices' = invoices]_vars

(***************************************************************************)
(* C9  Failure effect of every operation with a gateway call: the step in  *)
(* which a gateway call fails completes the operation with a rejection     *)
(* carrying the gateway's error, leaves in the error slot the error's      *)
(* message or, when it has none, the operation's fallback text, and        *)
(* changes neither the list, nor the total, nor the current invoice; the   *)
(* earlier steps of the operation (its call, the refresh of an upload) do  *)
(* not change these slots either.                                          *)
(***************************************************************************)
FallbackText(op) ==
  CASE op = "fetchInvoices" -> "Failed to fetch invoices"
    [] op = "uploadInvoice" -> "Failed to upload invoice"
    [] op = "fetchInvoiceDetail" -> "Failed to fetch invoice details"
    [] op = "getDownloadUrl" -> "Failed to get download URL"
    [] op = "submitFieldFeedback" -> "Failed to submit feedback"

SlotsUnchanged ==
  /\ invoices' = invoices
  /\ total' = total
  /\ currentInvoice' = currentInvoice

FailureEffect ==
  [][/\ ev'.gateway = "failed" =>
          /\ ev'.phase = "rejected"
          /\ ev'.value = ev'.answer
          /\ HasMessage(error')
          /\ Unwrap(error') =
               (IF Unwrap(ev'.answer).message # "" THEN Unwrap(ev'.answer).message
                ELSE FallbackText(ev'.op))
          /\ SlotsUnchanged
     /\ ev'.phase \in {"call", "refresh"} => SlotsUnchanged]_vars

\* the refresh of an upload failed with an error that has no message, on a
\* populated cache, and uploadInvoice has completed
UploadRefreshFailedWithoutMessage ==
  /\ ev.op = "uploadInvoice"
  /\ Failed(ev, "fetchInvoices")
  /\ Unwrap(ev.answer).message = ""
  /\ error = Some("Failed to upload invoice")
  /\ Len(invoices) = 2

(***************************************************************************)
(* C10  Loading cleanup: when fetchInvoices, uploadInvoice,                *)
(* fetchInvoiceDetail or getDownloadUrl completes, by success or failure,  *)
(* loading is false in the resulting state; and loading is false whenever  *)
(* none of these operations is waiting for the gateway.                    *)
(***************************************************************************)
LoadingOps == {"fetchInvoices", "uploadInvoice", "fetchInvoiceDetail", "getDownloadUrl"}

LoadingCleanup ==
  /\ (ev.op \in LoadingOps /\ ev.phase \in {"resolved", "rejected"}) => loading = FALSE
  /\ (\A req \in InFlight : req.op \in LoadingOps => req.call = "fetchInvoices")
       => loading = FALSE

\* three operations were started, the last one to complete failed, and
\* nothing is in flight
AllOperationsCompleted ==
  /\ calls = 3
  /\ pending = EmptyBag
  /\ ev.op = "fetchInvoiceDetail"
  /\ ev.phase = "rejected"
  /\ loading = FALSE

(***************************************************************************)
(* C11  Upload, then refresh: within an uploadInvoice the list call is     *)
(* issued only in the step in which the gateway accepted the upload; the   *)
(* step in which the upload call fails issues no list call, leaves the     *)
(* cached list as it was and rejects.                                      *)
(***************************************************************************)
\* number of list calls in a bag of calls in flight
ListCallsIn(bag) ==
  LET reqs == {r \in BagToSet(bag) : r.call = "getInvoices"}
  IN BagCardinality([r \in reqs |-> CopiesIn(r, bag)])

UploadThenRefresh ==
  [][/\ (ev'.op = "uploadInvoice" /\ ListCallsIn(pending') > ListCallsIn(pending))
          => Answered(ev', "uploadInvoice")
     /\ Failed(ev', "uploadInvoice") =>
          /\ ListCallsIn(pending') = ListCallsIn(pending)
          /\ invoices' = invoices
          /\ ev'.phase = "rejected"]_vars

\* an upload failed over a populated list and nothing is in flight
UploadFailedOnPopulatedList ==
  /\ Failed(ev, "uploadInvoice")
  /\ ev.phase = "rejected"
  /\ Len(invoices) = 2
  /\ pending = EmptyBag

(***************************************************************************)
(* C12  Refresh after upload.  As stated: when the gateway accepts an      *)
(* upload, uploadInvoice issues exactly one list call with no query and    *)
(* returns the upload acknowledgment whatever the outcome of that refresh. *)
(* As the code has it: the acknowledgment is returned when the refresh     *)
(* succeeds; when the refresh fails the call rejects with the refresh's    *)
(* error.                                                                  *)
(***************************************************************************)
\* this step issued exactly one call: a list call with no query, made on
\* behalf of the upload whose acknowledgment was just received
OneRefreshIssued ==
  LET issued == pending' (-) pending
  IN /\ BagCardinality(issued) = 1
     /\ \A r \in BagToSet(issued) :
          /\ r.call = "getInvoices"
          /\ r.op = "uploadInvoice"
          /\ IsNull(r.query)
          /\ r.response = Unwrap(ev'.answer)

\* e is the step in which uploadInvoice resumes after the refresh it awaited
RefreshCompleted(e) == e.op = "uploadInvoice" /\ CallOf(e) = "fetchInvoices"

\* the acknowledgment of the upload whose refresh e completes
Acknowledgment(e) == Unwrap(e.req).response

UploadReturnsAckWhateverRefresh ==
  [][/\ Answered(ev', "uploadInvoice") => OneRefreshIssued
     /\ RefreshCompleted(ev') =>
          /\ ev'.phase = "resolved"
          /\ ev'.value = Some(Acknowledgment(ev'))]_vars

UploadReturnsAckAfterRefresh ==
  [][/\ Answered(ev', "uploadInvoice") => OneRefreshIssued
     /\ (ev'.op = "uploadInvoice" /\ ~Answered(ev', "uploadInvoice"))
          => ListCallsIn(pending') <= ListCallsIn(pending)
     /\ (RefreshCompleted(ev') /\ ev'.gateway = "ok") =>
          /\ ev'.phase = "resolved"
          /\ ev'.value = Some(Acknowledgment(ev'))
     /\ (RefreshCompleted(ev') /\ ev'.gateway = "failed") =>
          /\ ev'.phase = "rejected"
          /\ ev'.value = ev'.answer
          /\ ev'.value # Some(Acknowledgment(ev'))]_vars

\* an upload returned its acknowledgment after a refresh that filled the list
UploadResolvedWithAck ==
  /\ RefreshCompleted(ev)
  /\ ev.phase = "resolved"
  /\ ev.value = Some([invoiceId |-> "c", fileName |-> "invoice.pdf", status |-> "processing"])
  /\ Len(invoices) = 2

(***************************************************************************)
(* C13  Detail replaces current: the step in which the gateway answers a   *)
(* fetchInvoiceDetail sets the current invoice to exactly the returned     *)
(* document, whatever was held before, returns that document, and leaves   *)
(* the list and the total as they were.                                    *)
(***************************************************************************)
DetailReplacesCurrent ==
  [][Answered(ev', "getInvoiceById") =>
       /\ currentInvoice' = ev'.answer
       /\ ev'.phase = "resolved"
       /\ ev'.value = ev'.answer
       /\ invoices' = invoices
       /\ total' = total]_vars

\* the failed copy of invoice a was fetched as detail while the list holds
\* its processing copy, which has fields the detail lacks
DetailFetchedBesideOlderListCopy ==
  /\ Answered(ev, "getInvoiceById")
  /\ currentInvoice = Some(A3)
  /\ invoices = <<A1, B1>>
  /\ total = 3

(***************************************************************************)
(* C14  Download URL pass-through.  As stated: no step of getDownloadUrl   *)
(* changes the list, the total or the current invoice, and a call that     *)
(* succeeds returns the url of the gateway response and leaves the error   *)
(* slot as it was, that is, neither its call step nor its resolved step    *)
(* writes the error slot.  As the code has it: the call step resets the    *)
(* error slot to empty; the resolved step does not write it.               *)
(***************************************************************************)
DownloadIsPassThrough ==
  [][/\ ev'.op = "getDownloadUrl" => SlotsUnchanged
     /\ (ev'.op = "getDownloadUrl" /\ ev'.phase \in {"call", "resolved"}) => error' = error
     /\ Answered(ev', "getDownloadUrl") =>
          /\ ev'.phase = "resolved"
          /\ ev'.value = Some(Unwrap(ev'.answer).url)]_vars

DownloadKeepsCacheResetsError ==
  [][/\ ev'.op = "getDownloadUrl" => SlotsUnchanged
     /\ (ev'.op = "getDownloadUrl" /\ ev'.phase = "call") => error' = Null
     /\ Answered(ev', "getDownloadUrl") =>
          /\ ev'.phase = "resolved"
          /\ ev'.value = Some(Unwrap(ev'.answer).url)
          /\ error' = error]_vars

\* a download url was returned while the list and the current invoice are held
DownloadResolvedOverPopulatedCache ==
  /\ Answered(ev, "getDownloadUrl")
  /\ ev.value = Some("https://storage/signed")
  /\ Len(invoices) = 2
  /\ ~IsNull(currentInvoice)
  /\ IsNull(error)

(***************************************************************************)
(* C16  Clear operations are local: clearError empties the error slot and  *)
(* changes nothing else, clearCurrentInvoice empties the current invoice   *)
(* and changes nothing else; neither issues a gateway call nor touches the *)
(* list, the total or the loading flag.                                    *)
(***************************************************************************)
ClearsAreLocal ==
  [][/\ ev'.op = "clearError" =>
          /\ error' = Null
          /\ UNCHANGED <<invoices, total, loading, currentInvoice, pending>>
     /\ ev'.op = "clearCurrentInvoice" =>
          /\ currentInvoice' = Null
          /\ UNCHANGED <<invoices, total, loading, error, pending>>]_vars

\* the selection was cleared while a message is recorded and a list call
\* is still waiting for the gateway
ClearedCurrentKeepingError ==
  /\ ev.op = "clearCurrentInvoice"
  /\ IsNull(currentInvoice)
  /\ HasMessage(error)
  /\ loading = TRUE
  /\ pending # EmptyBag

(***************************************************************************)
(* C15  Feedback without a loaded invoice: a submitFieldFeedback is never  *)
(* rejected before the gateway has answered; called while the current      *)
(* invoice is empty and the list holds the id, it issues the feedback      *)
(* call, and when that call resolves the list entry of that id (the first  *)
(* one, should the list hold several: C5 is about every entry) is the      *)
(* shallow union of its old value and the returned copy, while the current *)
(* invoice stays empty.                                                    *)
(***************************************************************************)
\* position of the first list entry with the given id
FirstEntryOf(list, invoiceId) ==
  CHOOSE i \in EntriesOf(list, invoiceId) :
    \A j \in EntriesOf(list, invoiceId) : i <= j

FeedbackWithoutCurrent ==
  [][/\ (ev'.op = "submitFieldFeedback" /\ ev'.phase = "rejected") => ev'.gateway # "none"
     /\ (/\ ev'.op = "submitFieldFeedback"
         /\ ev'.gateway = "none"
         /\ IsNull(currentInvoice)
         /\ EntriesOf(invoices, AnnotatedId(ev')) # {}) =>
          /\ ev'.phase = "call"
          /\ pending' = pending (+) One(Unwrap(ev'.req))
          /\ Unwrap(ev'.req).call = "submitFieldFeedback"
     /\ (/\ FeedbackSucceeded(ev')
         /\ IsNull(currentInvoice)
         /\ EntriesOf(invoices, AnnotatedId(ev')) # {}) =>
          /\ LET i == FirstEntryOf(invoices, AnnotatedId(ev'))
             IN IsShallowUnion(invoices'[i], invoices[i], Returned(ev'))
          /\ IsNull(currentInvoice')]_vars

\* feedback for "a" resolved with no invoice loaded and the second list
\* entry now carries the returned amount beside its local vendor name
FeedbackUpdatedListWithoutCurrent ==
  /\ FeedbackSucceeded(ev)
  /\ AnnotatedId(ev) = "a"
  /\ Returned(ev) = A2
  /\ IsNull(currentInvoice)
  /\ Len(invoices) = 2
  /\ invoices[1] = B1
  /\ invoices[2].id = "a" /\ invoices[2].totalAmount = 12
  /\ Has(invoices[2], "vendorName")

(***************************************************************************)
(* C17  sortedInvoices is a permutation of the cached list in which the    *)
(* upload dates never increase from one entry to the next, whatever the    *)
(* order of the cached list; reading it leaves the cached list as it was.  *)
(***************************************************************************)
\* how many times x occurs in a list
Occurrences(list, x) == Cardinality({i \in 1..Len(list) : list[i] = x})

IsPermutation(a, b) ==
  /\ Len(a) = Len(b)
  /\ \A i \in 1..Len(b) : Occurrences(a, b[i]) = Occurrences(b, b[i])

SortedListIsDescendingPermutation ==
  [][ev'.op = "sortedInvoices" =>
       LET sorted == Unwrap(ev'.value)
       IN /\ IsPermutation(sorted, invoices)
          /\ \A i \in 1..(Len(sorted) - 1) :
               GetTime(sorted[i].uploadedAt) >= GetTime(sorted[i + 1].uploadedAt)
          /\ invoices' = invoices]_vars

\* upload dates of a list
UploadDates(list) == [i \in 1..Len(list) |-> list[i].uploadedAt]

\* the list uploaded on 01-01, 03-01, 02-01 was read as 03-01, 02-01, 01-01
SortedThreeDates ==
  /\ ev.op = "sortedInvoices"
  /\ UploadDates(invoices) = <<"2024-01-01", "2024-03-01", "2024-02-01">>
  /\ UploadDates(Unwrap(ev.value)) = <<"2024-03-01", "2024-02-01", "2024-01-01">>

(***************************************************************************)
(* C18  Aggregate disjointness: in every state each status count of the    *)
(* invoice store is the number of list entries with that status; no step   *)
(* of fetchStatistics changes a count and no step of fetchInvoices changes *)
(* the statistics snapshot.                                                *)
(***************************************************************************)
Statuses == {"processing", "processed", "failed"}

\* the getter that counts a status
CountByStatus(status) ==
  CASE status = "processing" -> ProcessingInvoices
    [] status = "processed" -> ProcessedInvoices
    [] status = "failed" -> FailedInvoices

CountsMatchList ==
  \A status \in Statuses :
    CountByStatus(status) = Cardinality({i \in 1..Len(invoices) : invoices[i].status = status})

CountsAreSessionLocal ==
  /\ []CountsMatchList
  /\ [][/\ ev'.op = "fetchStatistics" =>
             /\ ProcessingInvoices' = ProcessingInvoices
             /\ ProcessedInvoices' = ProcessedInvoices
             /\ FailedInvoices' = FailedInvoices
        /\ ev'.op = "fetchInvoices" => admin'.statistics = admin.statistics]_vars

\* statistics reporting 7 processing invoices were fetched beside a list of
\* five documents, two of them processing
TwoOfFiveProcessing ==
  /\ ev.op = "fetchStatistics" /\ ev.phase = "resolved"
  /\ ~IsNull(admin.statistics)
  /\ Has(Unwrap(admin.statistics), "processingInvoices")
  /\ Unwrap(admin.statistics).processingInvoices = 7
  /\ Len(invoices) = 5
  /\ ProcessingInvoices = 2

(***************************************************************************)
(* C19  Statistics are replaced wholesale: in every state the statistics   *)
(* snapshot is empty or is one of the gateway's responses, field for       *)
(* field; a resolved fetchStatistics stores exactly the response and a     *)
(* failed one leaves the previous snapshot as it was.                      *)
(***************************************************************************)
SnapshotIsOneResponse ==
  IsNull(admin.statistics) \/ Unwrap(admin.statistics) \in StatisticsResponses

StatisticsReplacedWholesale ==
  /\ []SnapshotIsOneResponse
  /\ [][/\ Answered(ev', "getStatistics") => admin'.statistics = ev'.answer
        /\ Failed(ev', "getStatistics") =>
             /\ admin'.statistics = admin.statistics
             /\ ev'.phase = "rejected"]_vars

\* a fetchStatistics failed after an earlier one had stored a snapshot
FailedFetchKeptSnapshot ==
  /\ Failed(ev, "getStatistics")
  /\ ~IsNull(admin.statistics)
  /\ Unwrap(admin.statistics).totalUsers = 3
  /\ HasMessage(admin.error)

(***************************************************************************)
(* C20  Status invariant: given that every document the gateway serves     *)
(* satisfies it, every cached invoice (each list entry and the current     *)
(* invoice) has status failed exactly when errorMessage is set, and a      *)
(* status other than processing exactly when processedAt is set.           *)
(***************************************************************************)
StatusConsistent(inv) ==
  /\ inv.status = "failed" <=> Has(inv, "errorMessage")
  /\ inv.status # "processing" <=> Has(inv, "processedAt")

\* the invoices the store holds
Cached ==
  {invoices[i] : i \in 1..Len(invoices)} \cup
  (IF IsNull(currentInvoice) THEN {} ELSE {Unwrap(currentInvoice)})

StatusInvariant ==
  (\A inv \in Invoices : StatusConsistent(inv)) => \A inv \in Cached : StatusConsistent(inv)

\* C20 step by step, and only for responses that carry the annotated id:
\* a resolved submitFieldFeedback keeps a cache consistent in which every
\* invoice satisfies the status invariant
StatusInvariantKeptByMatchingResponse ==
  [][(/\ FeedbackSucceeded(ev')
      /\ Returned(ev').id = AnnotatedId(ev')
      /\ \A inv \in Cached : StatusConsistent(inv))
     => (\A inv \in Cached : StatusConsistent(inv))']_vars

(***************************************************************************)
(* C21  Idempotent removal: when a submitFieldFeedback with vote remove    *)
(* resolves against a gateway that deletes the field from the invoice's    *)
(* feedback map, the field is absent from fieldFeedback in every cached    *)
(* copy of that invoice, whether or not a copy had feedback for it before; *)
(* and when every cached copy already is what the response makes of it,    *)
(* as after a first removal, the step changes no copy.                     *)
(***************************************************************************)
\* the cached copies of an invoice, in a list and a current slot
CopiesOf(list, current, invoiceId) ==
  {list[i] : i \in EntriesOf(list, invoiceId)} \cup
  (IF CurrentHas(current, invoiceId) THEN {Unwrap(current)} ELSE {})

\* e is the step in which a removal resolved
RemovalSucceeded(e) == FeedbackSucceeded(e) /\ Unwrap(e.req).feedback.vote = "remove"

\* the field the call of step e voted on
VotedField(e) == Unwrap(e.req).feedback.fieldName

RemovalLeavesFieldAbsent ==
  [][RemovalSucceeded(ev') =>
       /\ \A copy \in CopiesOf(invoices', currentInvoice', AnnotatedId(ev')) :
            /\ Has(copy, "fieldFeedback")
            /\ ~Has(copy.fieldFeedback, VotedField(ev'))
       /\ (\A copy \in CopiesOf(invoices, currentInvoice, AnnotatedId(ev')) :
             IsShallowUnion(copy, copy, Returned(ev')))
          => (invoices' = invoices /\ currentInvoice' = currentInvoice)]_vars

\* two removals for "a" have resolved; the list and the current invoice
\* hold copies of "a" that started with a vote on the field and have none
RemovedTwice ==
  /\ RemovalSucceeded(ev)
  /\ calls = 2
  /\ pending = EmptyBag
  /\ AnnotatedId(ev) = "a"
  /\ CurrentHas(currentInvoice, "a")
  /\ EntriesOf(invoices, "a") # {}
  /\ \A copy \in CopiesOf(invoices, currentInvoice, "a") :
       /\ copy.fieldFeedback = [vendorName |-> FieldFeedback("downvote", "u1", "2024-01-05")]
       /\ copy.vendorName = "acme"

(***************************************************************************)
(* C22  Toggle correctness: when a submitFieldFeedback resolves, the       *)
(* feedback map written to a slot is the response's map, whatever the      *)
(* local votes were, and each slot that holds the id (the current invoice, *)
(* the list entry the lookup finds) becomes the same function of its own   *)
(* local copy and the response: the shallow union.  The new current        *)
(* invoice does not depend on the list, nor the new list on the current    *)
(* invoice; slots that held equal copies hold equal copies afterwards.     *)
(***************************************************************************)
SlotResultIsFunctionOfLocalAndResponse ==
  [][FeedbackSucceeded(ev') =>
       LET id == AnnotatedId(ev')
           r == Returned(ev')
           echoed == IF Has(r, "fieldFeedback") THEN r.fieldFeedback ELSE EmptyObject
       IN /\ IF CurrentHas(currentInvoice, id)
             THEN /\ IsShallowUnion(Unwrap(currentInvoice'), Unwrap(currentInvoice), r)
                  /\ Unwrap(currentInvoice').fieldFeedback = echoed
             ELSE currentInvoice' = currentInvoice
          /\ IF EntriesOf(invoices, id) # {}
             THEN LET i == FirstEntryOf(invoices, id)
                  IN /\ IsShallowUnion(invoices'[i], invoices[i], r)
                     /\ invoices'[i].fieldFeedback = echoed
                     /\ (CurrentHas(currentInvoice, id) /\ Unwrap(currentInvoice) = invoices[i])
                          => Unwrap(currentInvoice') = invoices'[i]
             ELSE invoices' = invoices]_vars

\* the list and the current invoice both held the processing copy of "a",
\* with an upvote on the amount; the response carried a downvote and both
\* now hold the same merged copy
BothSlotsReconciledAlike ==
  /\ FeedbackSucceeded(ev)
  /\ AnnotatedId(ev) = "a"
  /\ Unwrap(ev.req).feedback.vote = "upvote"
  /\ Returned(ev) = A2
  /\ Len(invoices) = 2
  /\ invoices[1].id = "a"
  /\ currentInvoice = Some(invoices[1])
  /\ Has(invoices[1], "vendorName")
  /\ invoices[1].vendorName = "acme"
  /\ invoices[1].fieldFeedback = A2.fieldFeedback

(***************************************************************************)
(* C23  Gateway error kinds: the rejection of a failed call has a code and *)
(* a message and at most details besides.  With a response its code is the *)
(* backend's code or, when the backend supplies none, http/<status>; with  *)
(* a request but no response it is network-error; with neither it is       *)
(* request-error, so the last two cases never share a code.                *)
(***************************************************************************)
\* the http/<status> codes
HttpCode ==
  (400 :> "http/400") @@ (401 :> "http/401") @@ (403 :> "http/403") @@ (404 :> "http/404") @@
  (409 :> "http/409") @@ (422 :> "http/422") @@ (500 :> "http/500")

\* the code the backend supplied with a response, "" when it supplied none
BackendCode(response) ==
  IF IsNull(response.data) THEN ""
  ELSE IF ~Has(Unwrap(response.data), "error") THEN ""
  ELSE IF ~Has(Unwrap(response.data).error, "code") THEN ""
  ELSE Unwrap(response.data).error.code

GatewayErrorKinds ==
  ev.op = "api.interceptors.response" =>
    LET failure == Unwrap(ev.answer)
        rejection == Unwrap(ev.value)
    IN /\ {"code", "message"} \subseteq DOMAIN rejection
       /\ DOMAIN rejection \subseteq {"code", "message", "details"}
       /\ ev.phase = "rejected"
       /\ IF ~IsNull(failure.response)
          THEN LET response == Unwrap(failure.response)
               IN rejection.code = (IF BackendCode(response) # "" THEN BackendCode(response)
                                    ELSE HttpCode[response.status])
          ELSE IF failure.request
          THEN rejection.code = "network-error"
          ELSE rejection.code = "request-error" /\ rejection.code # "network-error"

\* a request that could not be built was rejected as request-error
RequestErrorRejected ==
  /\ ev.op = "api.interceptors.response"
  /\ IsNull(Unwrap(ev.answer).response)
  /\ ~Unwrap(ev.answer).request
  /\ Unwrap(ev.value).code = "request-error"

(***************************************************************************)
(* C24  Auth store initial state and derived flags: a fresh auth store has *)
(* no user, is not authenticated, is not loading and has no error; in      *)
(* every state without a user isAdmin, isVerified and profileCompleted are *)
(* false, and isAdmin holds only for a user whose role is admin.           *)
(***************************************************************************)
AuthDerivedFlags ==
  /\ ev.op = "init" =>
       /\ IsNull(auth.currentUser)
       /\ auth.isAuthenticated = FALSE
       /\ auth.loading = FALSE
       /\ IsNull(auth.error)
  /\ IsNull(auth.currentUser) => (~IsAdmin /\ ~IsVerified /\ ~ProfileCompleted)
  /\ IsAdmin => (~IsNull(auth.currentUser) /\ Unwrap(auth.currentUser).role = "admin")

\* a logout succeeded: no user is held and the three flags are false
NoUserAfterLogout ==
  /\ ev.op = "logout" /\ ev.phase = "resolved"
  /\ IsNull(auth.currentUser)
  /\ ~IsAdmin /\ ~IsVerified /\ ~ProfileCompleted

(***************************************************************************)
(* C29  Auth session consistency: a sign-out (the listener fires with no   *)
(* user, or logout succeeds) clears isAuthenticated and currentUser in one *)
(* step and cancels no profile fetch; a sign-in sets isAuthenticated in    *)
(* the step that starts the profile fetch, before any profile is stored;   *)
(* a profile that arrives is stored whatever isAuthenticated is, so a      *)
(* state with a user and isAuthenticated = false is reachable.             *)
(***************************************************************************)
\* e is a sign-out step
SignedOut(e) ==
  \/ e.op = "onAuthStateChanged" /\ e.phase = "sync"
  \/ e.op = "logout" /\ e.phase = "resolved"

\* the profile fetches in flight
ProfileFetches(bag) ==
  LET reqs == {r \in BagToSet(bag) : r.call = "getProfile"}
  IN [r \in reqs |-> CopiesIn(r, bag)]

AuthSessionSteps ==
  [][/\ SignedOut(ev') =>
          /\ auth'.isAuthenticated = FALSE
          /\ IsNull(auth'.currentUser)
          /\ ProfileFetches(pending') = ProfileFetches(pending)
     /\ (ev'.op = "onAuthStateChanged" /\ ev'.phase = "call") =>
          /\ auth'.isAuthenticated = TRUE
          /\ auth'.currentUser = auth.currentUser
          /\ pending' = pending (+) One(Unwrap(ev'.req))
          /\ Unwrap(ev'.req).call = "getProfile"
     /\ Answered(ev', "getProfile") =>
          /\ auth'.currentUser = ev'.answer
          /\ auth'.isAuthenticated = auth.isAuthenticated]_vars

\* the profile requested by a sign-in arrived after the sign-out: a user is
\* held while isAuthenticated is false
StaleProfileAfterSignOut ==
  /\ Answered(ev, "getProfile")
  /\ Unwrap(ev.req).caller = "onAuthStateChanged"
  /\ ~IsNull(auth.currentUser)
  /\ auth.isAuthenticated = FALSE

(***************************************************************************)
(* C30  Route guard: for every navigation the guard calls next exactly     *)
(* once; the navigation proceeds only if, when the guard decides,          *)
(* requiresAuth implies isAuthenticated, Login and Register imply not      *)
(* isAuthenticated, requiresAdmin implies isAdmin, requiresVerification    *)
(* implies isVerified and requiresProfile implies profileCompleted; the    *)
(* first of these that fails, in this order, decides the redirect (Login   *)
(* with the requested path, Dashboard, Dashboard, Profile, Profile); and   *)
(* following the redirects in the same state ends at a route that is       *)
(* shown.                                                                  *)
(***************************************************************************)
\* the five conditions of the claim for a route, in order
GuardConditions(to) ==
  <<Meta(to, "requiresAuth") => auth.isAuthenticated,
    to.name \in {"Login", "Register"} => ~auth.isAuthenticated,
    Meta(to, "requiresAdmin") => IsAdmin,
    Meta(to, "requiresVerification") => IsVerified,
    Meta(to, "requiresProfile") => ProfileCompleted>>

\* the redirect each failing condition stands for
GuardRedirects(to) ==
  <<[name |-> "Login", query |-> [redirect |-> to.fullPath]],
    [name |-> "Dashboard"], [name |-> "Dashboard"],
    [name |-> "Profile"], [name |-> "Profile"]>>

FailingConditions(to) == {i \in 1..5 : ~GuardConditions(to)[i]}

FirstFailing(to) ==
  CHOOSE i \in FailingConditions(to) : \A j \in FailingConditions(to) : i <= j

RouteNamed(name) == CHOOSE r \in Routes : r.name = name

\* following the redirects from a route ends, within fuel navigations, at a
\* route the guard lets through
RECURSIVE Settles(_, _)
Settles(to, fuel) ==
  IF fuel = 0 THEN FALSE
  ELSE IF Len(BeforeEach(to)) # 1 THEN FALSE
  ELSE IF BeforeEach(to)[1] = Proceed THEN TRUE
  ELSE Settles(RouteNamed(Unwrap(BeforeEach(to)[1]).name), fuel - 1)

\* read in the state the deciding step ends in: the guard leaves the store
\* as it is, so this is the store it decided from
GuardDecidesOnce ==
  (ev.op = "beforeEach" /\ ev.phase = "resolved") =>
    LET to == Unwrap(ev.answer)
        nexts == Unwrap(ev.value)
    IN /\ Len(nexts) = 1
       /\ (nexts[1] = Proceed) <=> (FailingConditions(to) = {})
       /\ (FailingConditions(to) # {}) =>
            nexts[1] = Some(GuardRedirects(to)[FirstFailing(to)])
       /\ Settles(to, Cardinality(Routes))

\* the guard waited, the session started and an unverified profile arrived
\* meanwhile: the upload page is redirected to Profile
UploadRedirectedToProfileAfterWait ==
  /\ ev.op = "beforeEach" /\ ev.phase = "resolved"
  /\ ~IsNull(ev.req)
  /\ Unwrap(ev.answer).name = "InvoiceUpload"
  /\ auth.isAuthenticated
  /\ ~IsVerified
  /\ ev.value = Some(<<Some([name |-> "Profile"])>>)

(***************************************************************************)
(* C25  Last response wins: every response of a list call is applied in    *)
(* full in the step in which it arrives, whatever else is in flight and    *)
(* whichever request was issued first, so the list and the total equal the *)
(* response that arrived last; no response is dropped as stale, and the    *)
(* total never changes except together with the list, from one response.   *)
(***************************************************************************)
\* the list requests of fetchInvoices in flight
ListFetches(bag) == {r \in BagToSet(bag) : r.call = "getInvoices" /\ r.op = "fetchInvoices"}

LastResponseWins ==
  [][/\ Answered(ev', "getInvoices") =>
          /\ invoices' = Unwrap(ev'.answer).invoices
          /\ total' = Unwrap(ev'.answer).total
          /\ ListFetches(pending') = ListFetches(pending (-) One(Unwrap(ev'.req)))
     /\ total' # total => Answered(ev', "getInvoices")]_vars

\* two list calls overlap: the request issued second has been answered and
\* its response is the cache, while the one issued first is still in flight
\* and will be answered last
SecondIssuedAnsweredFirst ==
  /\ Answered(ev, "getInvoices")
  /\ Unwrap(ev.req).op = "fetchInvoices"
  /\ Unwrap(ev.req).issued = 2
  /\ \E r \in ListFetches(pending) : r.issued = 1
  /\ invoices = <<A1, B1>>
  /\ total = 3

(***************************************************************************)
(* C26  No cancellation: clearCurrentInvoice leaves every call in flight   *)
(* as it is, and the response of a detail call is written to the current   *)
(* slot in the step in which it arrives, whether the slot was cleared in   *)
(* the meantime or holds the invoice of another, later request: the slot   *)
(* then holds the document the answered request was served.                *)
(***************************************************************************)
NoCancellation ==
  [][/\ ev'.op = "clearCurrentInvoice" =>
          /\ IsNull(currentInvoice')
          /\ pending' = pending
     /\ Answered(ev', "getInvoiceById") =>
          /\ currentInvoice' = ev'.answer
          /\ pending' = pending (-) One(Unwrap(ev'.req))]_vars

\* the selection was cleared while the detail call for invoice a is still
\* in flight: its response will fill the slot again
ClearedWithDetailInFlight ==
  /\ ev.op = "clearCurrentInvoice"
  /\ IsNull(currentInvoice)
  /\ \E r \in InFlight : r.call = "getInvoiceById" /\ r.invoiceId = "a"
(***************************************************************************)
(* C27  One loading flag: each of fetchInvoices, uploadInvoice,            *)
(* fetchInvoiceDetail and getDownloadUrl sets loading when it starts a     *)
(* call and clears it when it completes, whatever else is in flight, so    *)
(* loading can be false while an operation is in flight; loading falls     *)
(* only in the completing step of one of these four, so it stays true      *)
(* throughout an operation that no other one overlaps; no step of          *)
(* submitFieldFeedback changes loading.                                    *)
(***************************************************************************)
\* e is the step in which one of the four loading operations completes
Completes(e) == e.op \in LoadingOps /\ e.phase \in {"resolved", "rejected"}

SharedLoadingFlag ==
  [][/\ Completes(ev') => loading' = FALSE
     /\ (ev'.op \in LoadingOps /\ ev'.phase \in {"call", "refresh"}) => loading' = TRUE
     /\ (loading /\ ~loading') => Completes(ev')
     /\ ev'.op = "submitFieldFeedback" => loading' = loading]_vars

\* an operation completed and cleared the flag while a list call is still
\* in flight
IdleFlagWithCallInFlight ==
  /\ Completes(ev)
  /\ loading = FALSE
  /\ \E r \in InFlight : r.op = "fetchInvoices"

(***************************************************************************)
(* C28  Error slot lifetime: every step in which fetchInvoices,            *)
(* uploadInvoice, fetchInvoiceDetail, getDownloadUrl or                    *)
(* submitFieldFeedback starts a call leaves the error slot empty, and so   *)
(* does clearError; the slot changes in no other step except the failing   *)
(* step of one of these operations, which writes the message of that       *)
(* failure over whatever the slot held: the slot shows the last failure.   *)
(***************************************************************************)
NetworkOps == LoadingOps \cup {"submitFieldFeedback"}

\* e is a step in which a network operation starts a gateway call
Starts(e) == e.op \in NetworkOps /\ e.phase \in {"call", "refresh"}

\* e is the step in which a network operation fails
FailsIn(e) == e.op \in NetworkOps /\ e.phase = "rejected"

\* the message of the error a failing step throws, "" if it has none
ThrownMessage(e) ==
  IF Has(Unwrap(e.value), "message") THEN Unwrap(e.value).message ELSE ""

ErrorSlotLifetime ==
  [][/\ Starts(ev') => IsNull(error')
     /\ ev'.op = "clearError" => IsNull(error')
     /\ FailsIn(ev') =>
          /\ HasMessage(error')
          /\ ThrownMessage(ev') # "" => error' = Some(ThrownMessage(ev'))
     /\ error' # error => (Starts(ev') \/ ev'.op = "clearError" \/ FailsIn(ev'))]_vars

\* two operations overlap: the download call failed without a message
\* while a detail call is in flight, and the slot holds the text of that
\* failure
SlotShowsLastFailure ==
  /\ FailsIn(ev)
  /\ ev.op = "getDownloadUrl"
  /\ ThrownMessage(ev) = ""
  /\ error = Some("Failed to get download URL")
  /\ \E r \in InFlight : r.op = "fetchInvoiceDetail"

====
